---- MODULE Spec2Model ----
(***************************************************************************)
(* realtime512b: the polling driver of `realtime512b start` (run_start),   *)
(* the ingestion of acquisition epoch blocks into raw segments             *)
(* (EpochBlockProcessor) and the ten file processors of file_processors.py *)
(* that derive the computed/ tree from raw/.                               *)
(*                                                                         *)
(* The file system is the state.  Every artifact has a progress value:     *)
(*   single-file artifacts   0 absent, 1 being written in place (the path  *)
(*                           exists, the content is partial), 2 complete;  *)
(*   four-file sortings      0 absent, 1 directory made, 2k the k-th file  *)
(*                           is being written by np.save, 2k+1 the k-th    *)
(*                           file is complete (k = 1..NumSortFiles).       *)
(* The .info sidecar of an artifact is written right after its data and is *)
(* part of the last write step.                                            *)
(*                                                                         *)
(* Besides the driver (Spec, SpecAcq, SpecBlocks, SpecLive, SpecTree,       *)
(* SpecStartup) and the read-only API beside it (SpecServe) the module     *)
(* holds the helper functions called on their own, each with its own       *)
(* specification over the variables call, step and result: the block scan, *)
(* the chunking, match_spikes_to_reference, compute_spike_sorting,         *)
(* compute_epoch_spike_sorting, compute_unit_autocorrelogram, the check    *)
(* and the saving of a sorting directory, and                              *)
(* create_cluster_separation_view.                                         *)
(***************************************************************************)
EXTENDS Integers, Sequences, FiniteSets, TLC

\* ---------------------------------------------------------------- bounds
NumBlocks == 2
MaxFiles == 2
MaxRefChanges == 1
MaxRewrites == 2
MaxAge == 7
MaxScanFiles == 2
MaxSamples == 8
MaxSamplesPerSegment == 3
MaxCoord == 2
MaxLabel == 2
MaxRefSpikes == 3
MaxSpikes == 2
MaxNeighbors == 3
MaxSortSpikes == 3
NumChannels == 2
MaxAmplitude == 2
MaxX == 1
MaxEpochSegments == 2
MaxEpochSpikes == 2
MaxTime == 1
MaxAmp == 2
MaxTemplate == 2
SegmentTicks == 4
MantissaBits == 2
MaxTrainLen == 4
MaxTrainTime == 6
MaxWindowBins == 4
MaxCoordLines == 3
MaxConfigChannels == 2
MaxSepLabel == 4
MaxSepSpikes == 5
MaxSepTemplate == 2
MaxSepNeighbors == 2

\* ------------------------------------------------------ program constants
NumSortFiles == 4
SettleSeconds == 5

Blocks == 1..NumBlocks
SegNums == 1..MaxFiles
Segs == Blocks \X SegNums

\* A .bin file of an acquisition block: "bad" has an int16 count that is not a
\* multiple of n_channels; "quiet" and "active" hold one segment's worth of
\* frames, without and with a threshold crossing.
FileKinds == {"bad", "quiet", "active"}
Contents == UNION {[1..n -> FileKinds] : n \in 1..MaxFiles}
\* ... and "empty" is a .bin file of zero bytes: it reads as a matrix of no
\* frames.  The blocks that hold such a file.
EmptyContents ==
    {c \in UNION {[1..n -> FileKinds \cup {"empty"}] : n \in 1..MaxFiles} :
        \E i \in 1..Len(c) : c[i] = "empty"}

\* reference_segment.txt: missing, blank, or one line "<block>/<segment>.bin"
RefAbsent == <<0, 0>>
RefEmpty == <<0, 1>>
None == <<0, 2>>
RefContents == {RefAbsent, RefEmpty} \cup Segs

SegKinds == {"raw", "filt", "shifted", "stats", "high_activity",
             "reference_sorting", "spike_sorting", "preview"}
BlockKinds == {"epoch_block_spike_sorting", "epoch_block_preview"}
SortKinds == {"reference_sorting", "spike_sorting", "epoch_block_spike_sorting"}
CoeffsPath == <<"shift_coeffs", 0, 0>>
Paths == (SegKinds \X Blocks \X SegNums) \cup (BlockKinds \X Blocks \X {0})
         \cup {CoeffsPath}

Stages == {"filtering", "shift_coeffs", "shifting", "stats", "high_activity",
           "reference_sorting", "spike_sorting", "epoch_block_spike_sorting",
           "epoch_block_preview", "preview"}
\* the steps of a tick that write: ingestion, then the stages
Writers == Stages \cup {"ingest"}

VARIABLES
    acq,                  \* acquisition/<b>: "none", "fresh" (a file younger than 5 s) or "settled"
    content,              \* the .bin files of acquisition/<b>, in filename order
    rawDir,               \* raw/<b> exists
    rawData,              \* the matrix read from acquisition/<b> when it was ingested, by segment
    files,                \* progress of every artifact path
    refFile,              \* content of reference_segment.txt
    reference_segment,    \* run_start's local: the designation resolved in this tick
    pc,                   \* position of the driver in run_start's loop
    wr,                   \* the artifacts the running stage is writing
    something_processed,  \* run_start's local flag
    writes,               \* history: number of times each artifact was written
    tickWrote,            \* history: the artifacts each writer began to write in this tick
    trace,                \* history: the stages attempted in this tick, in order
    fullAtStart,          \* history: the tree was fully computed when this tick began
    raised,               \* history: the segment whose classification raised
    refSets,              \* number of times the user has changed reference_segment.txt
    rewrites,             \* number of times the acquisition system has rewritten a settled block
    failedReads,          \* history: the blocks whose read has failed in some scan
    call,                 \* a helper function under study: its name and arguments
    step,                 \* ... its position: "idle", "called", "running" or "returned"
    result                \* ... what it has produced so far

vars == <<acq, content, rawDir, rawData, files, refFile, reference_segment, pc, wr,
          something_processed, writes, tickWrote, trace, fullAtStart, raised, refSets,
          rewrites, failedReads, call, step, result>>
\* the state of the driver and of the file system
pipeVars == <<acq, content, rawDir, rawData, files, refFile, reference_segment, pc, wr,
              something_processed, writes, tickWrote, trace, fullAtStart, raised, refSets,
              rewrites, failedReads>>
\* the state of a helper function called on its own
callVars == <<call, step, result>>
NoCall == [fn |-> "none"]

\* ------------------------------------------------------------ file system
P(kind, s) == <<kind, s[1], s[2]>>
BP(kind, b) == <<kind, b, 0>>

IsSort(a) == a[1] \in SortKinds
Done(a) == IF IsSort(a) THEN 2 * NumSortFiles + 1 ELSE 2
FilesExisting(a, p) == IF IsSort(a) THEN p \div 2 ELSE (IF p >= 1 THEN 1 ELSE 0)
FilesComplete(a, p) ==
    IF IsSort(a) THEN (IF p = 0 THEN 0 ELSE (p - 1) \div 2) ELSE (IF p = 2 THEN 1 ELSE 0)

\* os.path.exists(path) of a single-file artifact
Exists(f, a) == f[a] >= 1
\* all(os.path.exists(os.path.join(dir, f)) for f in required_files)
AllExist(f, a) == FilesExisting(a, f[a]) = NumSortFiles
\* os.path.exists(dir) of a sorting directory
DirExists(f, a) == f[a] >= 1

\* sorted(os.listdir(...)): block name first, then segment file name
PathLeq(a, b) == a[2] < b[2] \/ (a[2] = b[2] /\ a[3] <= b[3])
FirstOf(S) == IF S = {} THEN {} ELSE {CHOOSE a \in S : \A b \in S : PathLeq(a, b)}

\* os.makedirs(dir, exist_ok=True): what is already in the directory stays
MakeDirsFresh(f, a) ==
    [x \in Paths |-> IF x[1] = a[1] /\ x[2] = a[2] /\ x # a THEN 0 ELSE f[x]]
MakeDirs(f, a) == f

\* ------------------------------------------------------------- ingestion
\* _read_epoch_block_binary: files whose size is not a multiple of n_channels
\* are skipped with a warning, the others are concatenated
GoodFiles(c) == SelectSeq(c, LAMBDA k : k # "bad")
\* ... and the read returns None when nothing is left
ReadFails(c) == GoodFiles(c) = << >>
\* the whole segments of the concatenated matrix
WholeSegments(c) == SelectSeq(c, LAMBDA k : k \in {"quiet", "active"})
\* _chunk_to_segments: n_samples // samples_per_segment
NumSegments(c) == Len(WholeSegments(c))
\* _get_valid_epoch_blocks, one block: ages[i] is current_time - mtime of the
\* i-th file os.walk yields, in seconds
AllFilesOld(ages) == \A i \in 1..Len(ages) : ~(ages[i] < SettleSeconds)
IsValidEpochBlock(ages) == Len(ages) > 0 /\ AllFilesOld(ages)
\* _get_valid_epoch_blocks: acq[b] = "settled" stands for IsValidEpochBlock
ValidEpochBlocks == {b \in Blocks : acq[b] = "settled"}
\* the blocks process_epoch_blocks reads in this scan, and those it materializes
UnmaterializedNoCheck == ValidEpochBlocks
Unmaterialized == {b \in ValidEpochBlocks : ~rawDir[b]}
IngestibleAbortOnFail ==
    {b \in Unmaterialized : \A c \in Unmaterialized : c <= b => ~ReadFails(content[c])}
Ingestible == {b \in Unmaterialized : ~ReadFails(content[b])}
\* detection finds a spike in the segment (its data crosses the threshold)
Active(s) == s[2] <= Len(rawData[s[1]]) /\ rawData[s[1]][s[2]] = "active"
RawSegs(f, b) == {n \in SegNums : Exists(f, <<"raw", b, n>>)}

\* ------------------------------------------------------ the reference gate
\* get_reference_segment
GetReferenceSegment(c) == IF c = RefAbsent \/ c = RefEmpty THEN None ELSE c
\* run_start: the stages run when the designation is set and is in raw/
GateOpenNoRawCheck(ref, f) == ref # None
GateOpen(ref, f) == ref # None /\ Exists(f, P("raw", ref))

\* run_start: the order of the processors in the loop body
NextStageSwapped(s) ==
    CASE s = "filtering" -> "shifting"
      [] s = "shifting" -> "shift_coeffs"
      [] s = "shift_coeffs" -> "stats"
      [] s = "stats" -> "high_activity"
      [] s = "high_activity" -> "reference_sorting"
      [] s = "reference_sorting" -> "spike_sorting"
      [] s = "spike_sorting" -> "epoch_block_spike_sorting"
      [] s = "epoch_block_spike_sorting" -> "epoch_block_preview"
      [] s = "epoch_block_preview" -> "preview"
      [] s = "preview" -> "status"
NextStage(s) ==
    CASE s = "filtering" -> "shift_coeffs"
      [] s = "shift_coeffs" -> "shifting"
      [] s = "shifting" -> "stats"
      [] s = "stats" -> "high_activity"
      [] s = "high_activity" -> "reference_sorting"
      [] s = "reference_sorting" -> "spike_sorting"
      [] s = "spike_sorting" -> "epoch_block_spike_sorting"
      [] s = "epoch_block_spike_sorting" -> "epoch_block_preview"
      [] s = "epoch_block_preview" -> "preview"
      [] s = "preview" -> "status"

\* ------------------------------------------- what each processor works on
\* process_filtering: raw segments without a .filt
FilteringPending ==
    {a \in Paths : a[1] = "filt" /\ rawDir[a[2]] /\ Exists(files, <<"raw", a[2], a[3]>>)
                   /\ ~Exists(files, a)}
FilteringTargetsAll == FilteringPending
FilteringTargetsNoCheck ==
    FirstOf({a \in Paths : a[1] = "filt" /\ rawDir[a[2]] /\ Exists(files, <<"raw", a[2], a[3]>>)})
FilteringTargets == FirstOf(FilteringPending)

\* process_shift_coeffs
ShiftCoeffsTargetsNoCheck ==
    IF reference_segment # None /\ Exists(files, P("filt", reference_segment))
    THEN {CoeffsPath} ELSE {}
ShiftCoeffsTargetsNoFilt ==
    IF reference_segment # None /\ ~Exists(files, CoeffsPath)
    THEN {CoeffsPath} ELSE {}
ShiftCoeffsTargets ==
    IF reference_segment # None /\ ~Exists(files, CoeffsPath)
       /\ Exists(files, P("filt", reference_segment))
    THEN {CoeffsPath} ELSE {}

\* process_shifting
ShiftingPending ==
    {a \in Paths : a[1] = "shifted" /\ Exists(files, <<"filt", a[2], a[3]>>)
                   /\ ~Exists(files, a)}
ShiftingTargetsNoCoeffs == FirstOf(ShiftingPending)
ShiftingTargets == IF Exists(files, CoeffsPath) THEN FirstOf(ShiftingPending) ELSE {}

\* process_stats
StatsTargets ==
    FirstOf({a \in Paths : a[1] = "stats" /\ Exists(files, <<"filt", a[2], a[3]>>)
                           /\ ~Exists(files, a)})

\* process_high_activity
HighActivityTargets ==
    FirstOf({a \in Paths : a[1] = "high_activity" /\ Exists(files, <<"filt", a[2], a[3]>>)
                           /\ ~Exists(files, a)})

\* process_reference_sorting
ReferenceSortingTargetsNoCheck ==
    IF reference_segment # None
       /\ Exists(files, P("shifted", reference_segment))
       /\ Exists(files, P("high_activity", reference_segment))
    THEN {P("reference_sorting", reference_segment)} ELSE {}
ReferenceSortingTargets ==
    IF reference_segment # None
       /\ Exists(files, P("shifted", reference_segment))
       /\ Exists(files, P("high_activity", reference_segment))
       /\ ~AllExist(files, P("reference_sorting", reference_segment))
    THEN {P("reference_sorting", reference_segment)} ELSE {}

\* process_spike_sorting
SpikeSortingPending ==
    {a \in Paths : a[1] = "spike_sorting" /\ Exists(files, <<"shifted", a[2], a[3]>>)
                   /\ ~AllExist(files, a)
                   /\ Exists(files, <<"high_activity", a[2], a[3]>>)}
SpikeSortingTargetsUngated ==
    IF reference_segment # None THEN FirstOf(SpikeSortingPending) ELSE {}
SpikeSortingTargetsBlocked ==
    IF reference_segment # None
       /\ AllExist(files, P("reference_sorting", reference_segment))
       /\ Exists(files, P("shifted", reference_segment))
    THEN FirstOf({a \in Paths : a[1] = "spike_sorting"
                                /\ Exists(files, <<"shifted", a[2], a[3]>>)
                                /\ ~AllExist(files, a)})
         \cap SpikeSortingPending
    ELSE {}
SpikeSortingTargets ==
    IF reference_segment # None
       /\ AllExist(files, P("reference_sorting", reference_segment))
       /\ Exists(files, P("shifted", reference_segment))
    THEN FirstOf(SpikeSortingPending) ELSE {}

\* process_epoch_block_spike_sorting
EpochSortingPendingSomeSegment ==
    {a \in Paths : a[1] = "epoch_block_spike_sorting" /\ rawDir[a[2]]
                   /\ ~AllExist(files, a)
                   /\ RawSegs(files, a[2]) # {}
                   /\ \E n \in RawSegs(files, a[2]) :
                          AllExist(files, <<"spike_sorting", a[2], n>>)}
EpochSortingPending ==
    {a \in Paths : a[1] = "epoch_block_spike_sorting" /\ rawDir[a[2]]
                   /\ ~AllExist(files, a)
                   /\ RawSegs(files, a[2]) # {}
                   /\ \A n \in RawSegs(files, a[2]) :
                          AllExist(files, <<"spike_sorting", a[2], n>>)}
EpochSortingTargetsFirstBlockOnly ==
    IF \E a \in Paths : a[1] = "spike_sorting" /\ DirExists(files, a)
    THEN FirstOf({a \in Paths : a[1] = "epoch_block_spike_sorting" /\ rawDir[a[2]]
                                 /\ ~AllExist(files, a)}) \cap EpochSortingPending
    ELSE {}
EpochSortingTargets ==
    IF \E a \in Paths : a[1] = "spike_sorting" /\ DirExists(files, a)
    THEN FirstOf(EpochSortingPending) ELSE {}

\* process_epoch_block_preview
EpochPreviewTargets ==
    FirstOf({a \in Paths : a[1] = "epoch_block_preview"
                           /\ AllExist(files, BP("epoch_block_spike_sorting", a[2]))
                           /\ ~Exists(files, a)
                           /\ rawDir[a[2]] /\ RawSegs(files, a[2]) # {}})

\* process_preview
PreviewTargetsAfterSorting ==
    FirstOf({a \in Paths : a[1] = "preview" /\ Exists(files, <<"filt", a[2], a[3]>>)
                           /\ ~Exists(files, a)
                           /\ Exists(files, <<"shifted", a[2], a[3]>>)
                           /\ Exists(files, <<"stats", a[2], a[3]>>)
                           /\ Exists(files, <<"high_activity", a[2], a[3]>>)
                           /\ AllExist(files, <<"spike_sorting", a[2], a[3]>>)
                           /\ (reference_segment = <<a[2], a[3]>> =>
                                 AllExist(files, <<"reference_sorting", a[2], a[3]>>))})
PreviewTargets ==
    FirstOf({a \in Paths : a[1] = "preview" /\ Exists(files, <<"filt", a[2], a[3]>>)
                           /\ ~Exists(files, a)
                           /\ Exists(files, <<"shifted", a[2], a[3]>>)
                           /\ Exists(files, <<"stats", a[2], a[3]>>)
                           /\ Exists(files, <<"high_activity", a[2], a[3]>>)
                           /\ (reference_segment = <<a[2], a[3]>> =>
                                 AllExist(files, <<"reference_sorting", a[2], a[3]>>))})

Targets(stage) ==
    CASE stage = "filtering" -> FilteringTargets
      [] stage = "shift_coeffs" -> ShiftCoeffsTargets
      [] stage = "shifting" -> ShiftingTargets
      [] stage = "stats" -> StatsTargets
      [] stage = "high_activity" -> HighActivityTargets
      [] stage = "reference_sorting" -> ReferenceSortingTargets
      [] stage = "spike_sorting" -> SpikeSortingTargets
      [] stage = "epoch_block_spike_sorting" -> EpochSortingTargets
      [] stage = "epoch_block_preview" -> EpochPreviewTargets
      [] stage = "preview" -> PreviewTargets

\* ------------------------------------------------------- classification
\* compute_coarse_sorting on the reference segment: the catalog has no spike
\* when detection finds none in the segment
RefCatalogEmpty(ref) == ~Active(ref)
\* match_spikes_to_reference: an empty query returns an empty array, and only
\* then an empty reference raises ValueError
MatchRaisesNever(query_nonempty, reference_empty) == FALSE
MatchRaises(query_nonempty, reference_empty) == query_nonempty /\ reference_empty
\* compute_spike_sorting: returns the empty outputs before matching when no
\* spike was detected
ComputeSpikeSortingRaisesMatchFirst(s, ref) == MatchRaises(TRUE, RefCatalogEmpty(ref))
ComputeSpikeSortingRaises(s, ref) == Active(s) /\ MatchRaises(Active(s), RefCatalogEmpty(ref))

\* ------------------------------------------------------------------ Init
Init ==
    /\ acq = [b \in Blocks |-> "none"]
    /\ content = [b \in Blocks |-> << >>]
    /\ rawDir = [b \in Blocks |-> FALSE]
    /\ rawData = [b \in Blocks |-> << >>]
    /\ files = [a \in Paths |-> 0]
    /\ refFile \in RefContents
    /\ reference_segment = None
    /\ pc = "sleep"
    /\ wr = {}
    /\ something_processed = FALSE
    /\ writes = [a \in Paths |-> 0]
    /\ tickWrote = [s \in Writers |-> {}]
    /\ trace = << >>
    /\ fullAtStart = FALSE
    /\ raised = None
    /\ refSets = 0
    /\ rewrites = 0
    /\ failedReads = {}
    /\ call = NoCall /\ step = "idle" /\ result = << >>

\* ------------------------------------------------- the tree is complete
\* Every artifact of every stage exists and no block is waiting for ingestion
FullTree ==
    /\ Ingestible = {}
    /\ refFile \in Segs /\ Exists(files, P("raw", refFile))
    /\ Exists(files, CoeffsPath)
    /\ AllExist(files, P("reference_sorting", refFile))
    /\ \A s \in Segs : Exists(files, P("raw", s)) =>
          /\ \A k \in {"filt", "shifted", "stats", "high_activity", "preview"} :
                Exists(files, P(k, s))
          /\ AllExist(files, P("spike_sorting", s))
    /\ \A b \in Blocks : RawSegs(files, b) # {} =>
          /\ AllExist(files, BP("epoch_block_spike_sorting", b))
          /\ Exists(files, BP("epoch_block_preview", b))

\* --------------------------------------------------------- environment
\* The driver reads acquisition/ and reference_segment.txt only at the top of
\* a tick, so changes made during a tick are observed as changes made during
\* the sleep that follows it.
EnvUnchanged ==
    UNCHANGED <<rawDir, rawData, files, reference_segment, pc, wr, something_processed,
                writes, tickWrote, trace, fullAtStart, raised, failedReads, call, step,
                result>>

\* the acquisition system starts writing a block
Arrive(b) ==
    /\ pc = "sleep" /\ acq[b] = "none"
    /\ acq' = [acq EXCEPT ![b] = "fresh"]
    /\ UNCHANGED <<content, refFile, refSets, rewrites>>
    /\ EnvUnchanged

\* every file of the block is now older than 5 s
Settle(b) ==
    /\ pc = "sleep" /\ acq[b] = "fresh"
    /\ \E c \in Contents :
          /\ acq' = [acq EXCEPT ![b] = "settled"]
          /\ content' = [content EXCEPT ![b] = c]
    /\ UNCHANGED <<refFile, refSets, rewrites>>
    /\ EnvUnchanged

\* ... and one of them is a file of zero bytes
SettleEmpty(b) ==
    /\ pc = "sleep" /\ acq[b] = "fresh"
    /\ \E c \in EmptyContents :
          /\ acq' = [acq EXCEPT ![b] = "settled"]
          /\ content' = [content EXCEPT ![b] = c]
    /\ UNCHANGED <<refFile, refSets, rewrites>>
    /\ EnvUnchanged

\* the acquisition system writes again into a block whose files had settled
Rewrite(b) ==
    /\ pc = "sleep" /\ acq[b] = "settled" /\ rewrites < MaxRewrites
    /\ acq' = [acq EXCEPT ![b] = "fresh"]
    /\ content' = [content EXCEPT ![b] = << >>]
    /\ rewrites' = rewrites + 1
    /\ UNCHANGED <<refFile, refSets>>
    /\ EnvUnchanged

\* the user writes, blanks or removes reference_segment.txt
SetReference(r) ==
    /\ pc = "sleep" /\ refSets < MaxRefChanges /\ r # refFile
    /\ refFile' = r
    /\ refSets' = refSets + 1
    /\ UNCHANGED <<acq, content, rewrites>>
    /\ EnvUnchanged

\* ---------------------------------------------------------- the driver
EnvFixed == UNCHANGED <<acq, content, refFile, refSets, rewrites, call, step, result>>

\* time.sleep(5), then the top of the loop body
Sleep ==
    /\ pc = "sleep"
    /\ pc' = "ingest"
    /\ something_processed' = FALSE
    /\ fullAtStart' = FullTree
    /\ UNCHANGED <<rawDir, rawData, files, reference_segment, wr, writes, tickWrote, trace,
                   raised, failedReads>>
    /\ EnvFixed

\* process_epoch_blocks: every settled, unmaterialized, readable block gets its
\* raw directory and its segments
ProcessEpochBlocks ==
    /\ pc = "ingest" /\ wr = {}
    /\ LET targets == {a \in Paths : a[1] = "raw" /\ a[2] \in Ingestible
                                     /\ a[3] <= NumSegments(content[a[2]])}
       IN  /\ rawDir' = [b \in Blocks |-> rawDir[b] \/ b \in Ingestible]
           /\ rawData' = [b \in Blocks |->
                             IF b \in Ingestible THEN WholeSegments(content[b]) ELSE rawData[b]]
           /\ failedReads' = failedReads \cup (Unmaterialized \ Ingestible)
           /\ files' = [a \in Paths |-> IF a \in targets THEN 1 ELSE files[a]]
           /\ writes' = [a \in Paths |-> IF a \in targets THEN writes[a] + 1 ELSE writes[a]]
           /\ wr' = targets
           /\ tickWrote' = [tickWrote EXCEPT !["ingest"] = targets]
           /\ IF targets = {}
              THEN /\ pc' = "get_reference"
                   /\ something_processed' = (Ingestible # {})
              ELSE UNCHANGED <<pc, something_processed>>
    /\ UNCHANGED <<reference_segment, trace, fullAtStart, raised>>
    /\ EnvFixed

\* get_reference_segment and the two checks that gate the stages
GetReference ==
    /\ pc = "get_reference"
    /\ reference_segment' = GetReferenceSegment(refFile)
    /\ pc' = IF GateOpen(reference_segment', files) THEN "filtering" ELSE "status"
    /\ UNCHANGED <<rawDir, rawData, files, wr, something_processed, writes, tickWrote,
                   trace, fullAtStart, raised, failedReads>>
    /\ EnvFixed

\* A processor that finds nothing returns False; one that finds work makes the
\* output directory and starts to write its one target.
StageStep(stage, targets) ==
    /\ pc = stage /\ wr = {}
    /\ trace' = Append(trace, stage)
    /\ IF targets = {}
       THEN /\ pc' = NextStage(stage)
            /\ UNCHANGED <<files, wr, writes, tickWrote>>
       ELSE /\ LET base == MakeDirs(files, CHOOSE a \in targets : TRUE)
               IN  files' = [a \in Paths |-> IF a \in targets THEN 1 ELSE base[a]]
            /\ writes' = [a \in Paths |->
                             IF a \in targets /\ ~IsSort(a) THEN writes[a] + 1 ELSE writes[a]]
            /\ wr' = targets
            /\ tickWrote' = [tickWrote EXCEPT ![stage] = @ \cup targets]
            /\ pc' = pc
    /\ UNCHANGED <<rawDir, rawData, reference_segment, something_processed, fullAtStart,
                   raised, failedReads>>
    /\ EnvFixed

ProcessFiltering == StageStep("filtering", FilteringTargets)
ProcessShiftCoeffs == StageStep("shift_coeffs", ShiftCoeffsTargets)
ProcessShifting == StageStep("shifting", ShiftingTargets)
ProcessStats == StageStep("stats", StatsTargets)
ProcessHighActivity == StageStep("high_activity", HighActivityTargets)
ProcessReferenceSorting == StageStep("reference_sorting", ReferenceSortingTargets)
ProcessEpochBlockSpikeSorting ==
    StageStep("epoch_block_spike_sorting", EpochSortingTargets)
ProcessEpochBlockPreview == StageStep("epoch_block_preview", EpochPreviewTargets)
ProcessPreview == StageStep("preview", PreviewTargets)

\* process_spike_sorting: the sorting directory is made before
\* compute_spike_sorting runs; its ValueError is caught nowhere, neither in the
\* processor nor in run_start, so the process ends with the directory empty
ProcessSpikeSorting ==
    LET targets == SpikeSortingTargets
        failing == {a \in targets : ComputeSpikeSortingRaises(<<a[2], a[3]>>, reference_segment)}
    IN  IF failing = {}
        THEN StageStep("spike_sorting", targets)
        ELSE /\ pc = "spike_sorting" /\ wr = {}
             /\ trace' = Append(trace, "spike_sorting")
             /\ files' = [a \in Paths |-> IF a \in targets THEN 1 ELSE files[a]]
             /\ raised' = (LET a == CHOOSE a \in failing : TRUE IN <<a[2], a[3]>>)
             /\ pc' = "crashed"
             /\ UNCHANGED <<rawDir, rawData, reference_segment, wr, something_processed,
                            writes, tickWrote, fullAtStart, failedReads>>
             /\ EnvFixed

\* One step of the write in progress: tofile / json.dump / np.save write the
\* destination path in place.  When the last file is complete the processor
\* returns True and run_start sets something_processed.
WriteStep ==
    /\ wr # {}
    /\ files' = [a \in Paths |-> IF a \in wr THEN files[a] + 1 ELSE files[a]]
    /\ writes' = [a \in Paths |->
                     IF a \in wr /\ IsSort(a) /\ files[a] = 1 THEN writes[a] + 1 ELSE writes[a]]
    /\ wr' = {a \in wr : files'[a] < Done(a)}
    /\ IF wr' = {}
       THEN /\ something_processed' = TRUE
            /\ pc' = IF pc = "ingest" THEN "get_reference" ELSE NextStage(pc)
       ELSE UNCHANGED <<something_processed, pc>>
    /\ UNCHANGED <<rawDir, rawData, reference_segment, tickWrote, trace, fullAtStart,
                   raised, failedReads>>
    /\ EnvFixed

\* The status print that ends the loop body.  The locals something_processed
\* and reference_segment are dead from here until the next tick assigns them.
Status ==
    /\ pc = "status"
    /\ pc' = "sleep"
    /\ something_processed' = FALSE
    /\ reference_segment' = None
    /\ tickWrote' = [s \in Writers |-> {}]
    /\ trace' = << >>
    /\ fullAtStart' = FALSE
    /\ UNCHANGED <<rawDir, rawData, files, wr, writes, raised, failedReads>>
    /\ EnvFixed

Next ==
    \/ \E b \in Blocks : Arrive(b)
    \/ \E b \in Blocks : Settle(b)
    \/ \E r \in RefContents : SetReference(r)
    \/ Sleep
    \/ ProcessEpochBlocks
    \/ GetReference
    \/ ProcessFiltering
    \/ ProcessShiftCoeffs
    \/ ProcessShifting
    \/ ProcessStats
    \/ ProcessHighActivity
    \/ ProcessReferenceSorting
    \/ ProcessSpikeSorting
    \/ ProcessEpochBlockSpikeSorting
    \/ ProcessEpochBlockPreview
    \/ ProcessPreview
    \/ WriteStep
    \/ Status

Spec == Init /\ [][Next]_vars

\* ------------------------------------------- ingestion while data is rewritten
\* The driver with no reference designated (every tick ends after ingestion),
\* and an acquisition system that writes again into blocks that had settled.
InitAcq == Init /\ refFile = RefAbsent
NextAcq ==
    \/ \E b \in Blocks : Arrive(b)
    \/ \E b \in Blocks : Settle(b)
    \/ \E b \in Blocks : Rewrite(b)
    \/ Sleep
    \/ ProcessEpochBlocks
    \/ WriteStep
    \/ GetReference
    \/ Status
SpecAcq == InitAcq /\ [][NextAcq]_vars

\* ------------------------------------------- blocks with fewer frames than a segment
\* The driver with a designation that the user leaves alone, and acquisition
\* blocks that may hold files of zero bytes, so that a block can be
\* materialized as a raw directory with fewer segments than files, or none.
InitBlocks == Init /\ refFile \in Segs
NextBlocks ==
    \/ \E b \in Blocks : Arrive(b)
    \/ \E b \in Blocks : Settle(b)
    \/ \E b \in Blocks : SettleEmpty(b)
    \/ Sleep
    \/ ProcessEpochBlocks
    \/ GetReference
    \/ ProcessFiltering
    \/ ProcessShiftCoeffs
    \/ ProcessShifting
    \/ ProcessStats
    \/ ProcessHighActivity
    \/ ProcessReferenceSorting
    \/ ProcessSpikeSorting
    \/ ProcessEpochBlockSpikeSorting
    \/ ProcessEpochBlockPreview
    \/ ProcessPreview
    \/ WriteStep
    \/ Status
SpecBlocks == InitBlocks /\ [][NextBlocks]_vars

\* ... and the driver keeps running: the body of `while True` has no exit
\* and no blocking call but time.sleep(5), so a step of the driver that is
\* possible is eventually taken.  The acquisition system is under no such
\* obligation.
DriverNext ==
    \/ Sleep
    \/ ProcessEpochBlocks
    \/ GetReference
    \/ ProcessFiltering
    \/ ProcessShiftCoeffs
    \/ ProcessShifting
    \/ ProcessStats
    \/ ProcessHighActivity
    \/ ProcessReferenceSorting
    \/ ProcessSpikeSorting
    \/ ProcessEpochBlockSpikeSorting
    \/ ProcessEpochBlockPreview
    \/ ProcessPreview
    \/ WriteStep
    \/ Status
SpecLive == InitBlocks /\ [][NextBlocks]_vars /\ WF_vars(DriverNext)

\* ---------------------------------------- the driver started on a kept tree
\* run_start takes raw/ and computed/ as it finds them: the tree an earlier
\* run left behind, less whatever the user has removed to have it computed
\* again.  Every segment is in raw/; of its derived artifacts it has one of
\* these sets, each of them complete.
SegmentTrees ==
    {{},
     {"filt", "shifted", "stats"},
     {"filt", "shifted", "stats", "high_activity"},
     {"filt", "shifted", "stats", "spike_sorting", "preview"},
     {"filt", "shifted", "stats", "high_activity", "spike_sorting", "preview"}}
\* the blocks hold MaxFiles whole segments, the first of them quiet or not
KeptContents ==
    {[i \in 1..MaxFiles |-> "active"],
     [i \in 1..MaxFiles |-> IF i = 1 THEN "quiet" ELSE "active"]}
InitTree ==
    /\ acq = [b \in Blocks |-> "settled"]
    /\ \E c \in KeptContents :
          /\ content = [b \in Blocks |-> c]
          /\ rawData = [b \in Blocks |-> WholeSegments(c)]
    /\ rawDir = [b \in Blocks |-> TRUE]
    /\ refFile \in {<<1, 1>>, <<NumBlocks, MaxFiles>>}
    /\ \E t \in [Segs -> SegmentTrees], refDone \in BOOLEAN :
          files = [a \in Paths |->
                      CASE a = CoeffsPath -> Done(a)
                        [] a[1] \in BlockKinds -> 0
                        [] a[1] = "raw" -> Done(a)
                        [] a[1] = "reference_sorting" ->
                              IF refDone /\ <<a[2], a[3]>> = refFile THEN Done(a) ELSE 0
                        [] OTHER ->
                              IF a[1] \in t[<<a[2], a[3]>>] THEN Done(a) ELSE 0]
    /\ reference_segment = None
    /\ pc = "sleep"
    /\ wr = {}
    /\ something_processed = FALSE
    /\ writes = [a \in Paths |-> 0]
    /\ tickWrote = [s \in Writers |-> {}]
    /\ trace = << >>
    /\ fullAtStart = FALSE
    /\ raised = None
    /\ refSets = 0
    /\ rewrites = 0
    /\ failedReads = {}
    /\ call = NoCall /\ step = "idle" /\ result = << >>
SpecTree == InitTree /\ [][DriverNext]_vars

\* ------------------------------------------ the helper functions on their own
\* The driver is at rest before its first tick with nothing in acquisition/;
\* one helper is called with arguments drawn from a bounded set.
Quiescent ==
    /\ acq = [b \in Blocks |-> "none"]
    /\ content = [b \in Blocks |-> << >>]
    /\ rawDir = [b \in Blocks |-> FALSE]
    /\ rawData = [b \in Blocks |-> << >>]
    /\ files = [a \in Paths |-> 0]
    /\ refFile = RefAbsent
    /\ reference_segment = None
    /\ pc = "sleep"
    /\ wr = {}
    /\ something_processed = FALSE
    /\ writes = [a \in Paths |-> 0]
    /\ tickWrote = [s \in Writers |-> {}]
    /\ trace = << >>
    /\ fullAtStart = FALSE
    /\ raised = None
    /\ refSets = 0
    /\ rewrites = 0
    /\ failedReads = {}

SeqsUpTo(S, n) == UNION {[1..k -> S] : k \in 0..n}

\* ---- _get_valid_epoch_blocks on one block directory
ScanCalls == {[fn |-> "_get_valid_epoch_blocks", ages |-> a] :
                 a \in SeqsUpTo(0..MaxAge, MaxScanFiles)}
InitScan == Quiescent /\ call \in ScanCalls /\ step = "called" /\ result = << >>
GetValidEpochBlocks ==
    /\ call.fn = "_get_valid_epoch_blocks" /\ step = "called"
    /\ result' = [valid |-> IsValidEpochBlock(call.ages)]
    /\ step' = "returned"
    /\ UNCHANGED call
    /\ UNCHANGED pipeVars
NextScan == GetValidEpochBlocks
SpecScan == InitScan /\ [][NextScan]_vars

\* ---- process_epoch_blocks from os.makedirs on, and _chunk_to_segments
\* data[start:end] of Python: 0-based, end excluded, cut at the end of the data
PySlice(data, start, end) ==
    SubSeq(data, start + 1, IF end < Len(data) THEN end ELSE Len(data))
\* n_samples // samples_per_segment
NumChunksCeil(n_samples, samples_per_segment) ==
    (n_samples + samples_per_segment - 1) \div samples_per_segment
NumChunks(n_samples, samples_per_segment) == n_samples \div samples_per_segment
\* the matrix read from the block: row j (0-based) is the frame j
Frames(n_samples) == [j \in 1..n_samples |-> j - 1]
ChunkCalls == {[fn |-> "_chunk_to_segments", data |-> Frames(n), samples_per_segment |-> sps] :
                  n \in 0..MaxSamples, sps \in 1..MaxSamplesPerSegment}
InitChunk == Quiescent /\ call \in ChunkCalls /\ step = "called" /\ result = << >>
\* os.makedirs(raw_epoch_block_dir, exist_ok=True), then the call
MakeRawDir ==
    /\ call.fn = "_chunk_to_segments" /\ step = "called"
    /\ result' = [dir_exists |-> TRUE, segment_files |-> << >>, i |-> 0, n_segments |-> -1]
    /\ step' = "running"
    /\ UNCHANGED call
    /\ UNCHANGED pipeVars
\* one iteration of `for i in range(n_segments)`: segment_<i+1>.bin is written
ChunkSegment ==
    /\ call.fn = "_chunk_to_segments" /\ step = "running"
    /\ result.i < NumChunks(Len(call.data), call.samples_per_segment)
    /\ LET segment_num == result.i + 1
           start_idx == result.i * call.samples_per_segment
           end_idx == start_idx + call.samples_per_segment
       IN  result' = [result EXCEPT
                        !.segment_files = [k \in (DOMAIN @) \cup {segment_num} |->
                                             IF k = segment_num
                                             THEN PySlice(call.data, start_idx, end_idx)
                                             ELSE @[k]],
                        !.i = @ + 1]
    /\ UNCHANGED <<call, step>>
    /\ UNCHANGED pipeVars
\* return n_segments
ChunkReturn ==
    /\ call.fn = "_chunk_to_segments" /\ step = "running"
    /\ result.i = NumChunks(Len(call.data), call.samples_per_segment)
    /\ result' = [result EXCEPT !.n_segments = result.i]
    /\ step' = "returned"
    /\ UNCHANGED call
    /\ UNCHANGED pipeVars
NextChunk == MakeRawDir \/ ChunkSegment \/ ChunkReturn
SpecChunk == InitChunk /\ [][NextChunk]_vars

\* ---- match_spikes_to_reference
\* A spike frame is one number (a waveform with one feature); the distance of
\* two frames is the Euclidean one.
SpikeFrames == 0..MaxCoord
Labels == 1..MaxLabel
Dist(x, y) == IF x <= y THEN y - x ELSE x - y
Min(x, y) == IF x <= y THEN x ELSE y

\* nearest_neighbors(reference_frames, spike_frames, n_neighbors=k), one query
\* row: the index sets kneighbors may return.  Which of several equidistant
\* reference rows it returns is decided inside sklearn.
KNearest(reference_frames, frame, k) ==
    {N \in SUBSET (1..Len(reference_frames)) :
        /\ Cardinality(N) = k
        /\ \A a \in N : \A b \in (1..Len(reference_frames)) \ N :
              Dist(reference_frames[a], frame) <= Dist(reference_frames[b], frame)}

\* np.unique(neighbor_labels, return_counts=True): the distinct labels in
\* ascending order, and the number of neighbours with each
RECURSIVE SortedSeq(_)
SortedSeq(S) ==
    IF S = {} THEN << >>
    ELSE LET m == CHOOSE x \in S : \A y \in S : x <= y
         IN  <<m>> \o SortedSeq(S \ {m})
Unique(reference_labels, N) == SortedSeq({reference_labels[a] : a \in N})
Counts(reference_labels, N) ==
    LET unique == Unique(reference_labels, N)
    IN  [j \in 1..Len(unique) |-> Cardinality({a \in N : reference_labels[a] = unique[j]})]
\* np.argmax: the first position of the maximum (1-based here)
ArgMaxLast(counts) ==
    CHOOSE j \in 1..Len(counts) :
        /\ \A l \in 1..Len(counts) : counts[l] <= counts[j]
        /\ \A l \in 1..Len(counts) : l > j => counts[l] < counts[j]
ArgMax(counts) ==
    CHOOSE j \in 1..Len(counts) :
        /\ \A l \in 1..Len(counts) : counts[l] <= counts[j]
        /\ \A l \in 1..Len(counts) : l < j => counts[l] < counts[j]
\* best_label = unique[np.argmax(counts)]
BestLabelIsIndex(reference_labels, N) == ArgMax(Counts(reference_labels, N)) - 1
BestLabel(reference_labels, N) ==
    Unique(reference_labels, N)[ArgMax(Counts(reference_labels, N))]

MatchCalls ==
    {[fn |-> "match_spikes_to_reference", spike_frames |-> q,
      reference_frames |-> [i \in 1..Len(r) |-> r[i][1]],
      reference_labels |-> [i \in 1..Len(r) |-> r[i][2]],
      n_neighbors |-> k] :
        q \in SeqsUpTo(SpikeFrames, MaxSpikes),
        r \in SeqsUpTo(SpikeFrames \X Labels, MaxRefSpikes),
        k \in 1..MaxNeighbors}
InitMatch == Quiescent /\ call \in MatchCalls /\ step = "called" /\ result = << >>

\* the two length tests, then nearest_neighbors for all the query rows
MatchSpikesToReference ==
    /\ call.fn = "match_spikes_to_reference" /\ step = "called"
    /\ LET nq == Len(call.spike_frames)
           nr == Len(call.reference_frames)
           k == Min(call.n_neighbors, nr)
       IN  IF nq = 0
           THEN /\ result' = [raised |-> FALSE, nearest_inds |-> << >>,
                              matched_labels |-> << >>, i |-> 0]
                /\ step' = "returned"
           ELSE IF MatchRaises(nq # 0, nr = 0)
           THEN /\ result' = [raised |-> TRUE, nearest_inds |-> << >>,
                              matched_labels |-> << >>, i |-> 0]
                /\ step' = "returned"
           ELSE /\ \E inds \in [1..nq -> SUBSET (1..nr)] :
                      /\ \A i \in 1..nq :
                            inds[i] \in KNearest(call.reference_frames, call.spike_frames[i], k)
                      /\ result' = [raised |-> FALSE, nearest_inds |-> inds,
                                    matched_labels |-> [i \in 1..nq |-> 0], i |-> 0]
                /\ step' = "running"
    /\ UNCHANGED call
    /\ UNCHANGED pipeVars
\* one iteration of `for i in range(len(spike_frames))`
VoteRow ==
    /\ call.fn = "match_spikes_to_reference" /\ step = "running"
    /\ result.i < Len(call.spike_frames)
    /\ result' = [result EXCEPT
                     !.matched_labels[result.i + 1] =
                         BestLabel(call.reference_labels, result.nearest_inds[result.i + 1]),
                     !.i = @ + 1]
    /\ UNCHANGED <<call, step>>
    /\ UNCHANGED pipeVars
\* return matched_labels
MatchReturn ==
    /\ call.fn = "match_spikes_to_reference" /\ step = "running"
    /\ result.i = Len(call.spike_frames)
    /\ step' = "returned"
    /\ UNCHANGED <<call, result>>
    /\ UNCHANGED pipeVars
NextMatch == MatchSpikesToReference \/ VoteRow \/ MatchReturn
SpecMatch == InitMatch /\ [][NextMatch]_vars

\* ---- compute_spike_sorting, from the labels match_spikes_to_reference returned
\* A detected spike frame has one negative value per channel.
Channels == 1..NumChannels
SortFrames == [Channels -> (0 - MaxAmplitude)..(0 - 1)]
ElectrodeXs == [Channels -> 0..MaxX]

\* np.median of the values of one channel, times two to stay in the integers
RECURSIVE SortedVals(_, _)
SortedVals(vals, I) ==
    IF I = {} THEN << >>
    ELSE LET m == CHOOSE i \in I : \A j \in I : vals[i] <= vals[j]
         IN  <<vals[m]>> \o SortedVals(vals, I \ {m})
Median2(vals, I) ==
    LET sv == SortedVals(vals, I)
        n == Len(sv)
    IN  IF n % 2 = 1 THEN 2 * sv[(n + 1) \div 2] ELSE sv[n \div 2] + sv[n \div 2 + 1]
\* templates[idx, :] = np.median(frames[spike_labels == label, :], axis=0), with
\* idx the rank of the label among the labels that occur
Templates(frames, spike_labels) ==
    LET sorted_labels == SortedSeq({spike_labels[i] : i \in 1..Len(spike_labels)})
    IN  [idx \in 1..Len(sorted_labels) |->
            [c \in Channels |->
                Median2([i \in 1..Len(frames) |-> frames[i][c]],
                        {i \in 1..Len(frames) : spike_labels[i] = sorted_labels[idx]})]]

\* compute_template_peak_channel_x_coordinate: the x-coordinate of the channel
\* where the template is most negative
PeakChannel(template) ==
    CHOOSE c \in Channels : /\ \A d \in Channels : template[c] <= template[d]
                            /\ \A d \in Channels : d < c => template[c] < template[d]
PeakChannelX(template, electrode_x) == electrode_x[PeakChannel(template)]

\* np.argsort(keys), default kind: the permutations that put the keys in
\* ascending order; the order of equal keys is not defined
Perms(n) == {p \in [1..n -> 1..n] : \A i, j \in 1..n : i # j => p[i] # p[j]}
ArgSortsIdentity(keys) == {[i \in 1..Len(keys) |-> i]}
ArgSorts(keys) ==
    {p \in Perms(Len(keys)) : \A i, j \in 1..Len(keys) : i < j => keys[p[i]] <= keys[p[j]]}

\* lines 115-129 on given templates and labels, with sorted_indices the result
\* of np.argsort: the reordered templates and the remapped labels
CanonicalNoRemap(templates, spike_labels, sorted_indices) ==
    [templates |-> [new_idx \in 1..Len(sorted_indices) |-> templates[sorted_indices[new_idx]]],
     spike_labels |-> spike_labels]
Canonical(templates, spike_labels, sorted_indices) ==
    LET sorted_labels == SortedSeq({spike_labels[i] : i \in 1..Len(spike_labels)})
        old_to_new(old_label) ==
            IF \E new_idx \in 1..Len(sorted_indices) :
                   sorted_labels[sorted_indices[new_idx]] = old_label
            THEN sorted_labels[CHOOSE new_idx \in 1..Len(sorted_indices) :
                                   sorted_labels[sorted_indices[new_idx]] = old_label]
            ELSE 0
    IN  [templates |-> [new_idx \in 1..Len(sorted_indices) |-> templates[sorted_indices[new_idx]]],
         spike_labels |-> [i \in 1..Len(spike_labels) |-> old_to_new(spike_labels[i])]]
TemplateXCoords(templates, electrode_x) ==
    [idx \in 1..Len(templates) |-> PeakChannelX(templates[idx], electrode_x)]

SortCalls ==
    {[fn |-> "compute_spike_sorting",
      frames |-> [i \in 1..Len(q) |-> q[i][1]],
      matched_labels |-> [i \in 1..Len(q) |-> q[i][2]],
      electrode_x |-> ex] :
        q \in SeqsUpTo(SortFrames \X Labels, MaxSortSpikes), ex \in ElectrodeXs}
InitSort == Quiescent /\ call \in SortCalls /\ step = "called" /\ result = << >>

\* no spike detected: the empty outputs; otherwise the templates by label
ComputeTemplates ==
    /\ call.fn = "compute_spike_sorting" /\ step = "called"
    /\ IF Len(call.frames) = 0
       THEN /\ result' = [templates |-> << >>, spike_labels |-> << >>]
            /\ step' = "returned"
       ELSE /\ result' = [templates |-> Templates(call.frames, call.matched_labels),
                          spike_labels |-> call.matched_labels]
            /\ step' = "running"
    /\ UNCHANGED call
    /\ UNCHANGED pipeVars
\* the sort by peak-channel x-coordinate and the remap of the labels
Canonicalize ==
    /\ call.fn = "compute_spike_sorting" /\ step = "running"
    /\ \E sorted_indices \in ArgSorts(TemplateXCoords(result.templates, call.electrode_x)) :
          result' = Canonical(result.templates, result.spike_labels, sorted_indices)
    /\ step' = "returned"
    /\ UNCHANGED call
    /\ UNCHANGED pipeVars
\* lines 115-129 applied once more, to the templates and labels returned
Recanonicalize ==
    /\ call.fn = "compute_spike_sorting" /\ step = "returned"
    /\ Len(result.templates) > 0
    /\ \E sorted_indices \in ArgSorts(TemplateXCoords(result.templates, call.electrode_x)) :
          result' = [templates |-> result.templates, spike_labels |-> result.spike_labels,
                     again |-> Canonical(result.templates, result.spike_labels, sorted_indices)]
    /\ step' = "reapplied"
    /\ UNCHANGED call
    /\ UNCHANGED pipeVars
NextSort == ComputeTemplates \/ Canonicalize \/ Recanonicalize
SpecSort == InitSort /\ [][NextSort]_vars

\* ---- compute_epoch_spike_sorting
\* Times are whole ticks.  The per-segment spike_times are float32 arrays
\* (spike_inds.astype(np.float32) / sampling_frequency_hz) and adding the
\* Python float segment_offset_sec keeps the dtype, so every sum is rounded
\* to a float of MantissaBits significant bits, to nearest, ties to even.
RECURSIVE Pow2(_)
Pow2(k) == IF k = 0 THEN 1 ELSE 2 * Pow2(k - 1)
RECURSIVE Ulp(_, _)
Ulp(x, u) == IF x < u * Pow2(MantissaBits) THEN u ELSE Ulp(x, 2 * u)
Float(x) ==
    LET u == Ulp(x, 1)
        q == x \div u
        r == x % u
    IN  IF 2 * r < u THEN q * u
        ELSE IF 2 * r > u THEN (q + 1) * u
        ELSE (IF q % 2 = 0 THEN q ELSE q + 1) * u

\* the rows (time, label, amplitude) of one segment's sorting, with one
\* one-channel template per distinct label, as compute_spike_sorting returns
EpochSpikes == (0..MaxTime) \X Labels \X (1..MaxAmp)
SegmentSortings ==
    UNION {{[spike_times |-> [i \in 1..Len(q) |-> q[i][1]],
             spike_labels |-> [i \in 1..Len(q) |-> q[i][2]],
             spike_amplitudes |-> [i \in 1..Len(q) |-> q[i][3]],
             templates |-> t] :
               t \in [1..Cardinality({q[i][2] : i \in 1..Len(q)}) -> 1..MaxTemplate]} :
           q \in SeqsUpTo(EpochSpikes, MaxEpochSpikes)}
\* the list the processor passes: the sortings of the segments 1..N of a
\* block, here in any order
EpochCall(nums, f) ==
    [fn |-> "compute_epoch_spike_sorting",
     segment_sortings |-> [i \in 1..Len(nums) |->
         [segment_num |-> nums[i], spike_times |-> f[i].spike_times,
          spike_labels |-> f[i].spike_labels,
          spike_amplitudes |-> f[i].spike_amplitudes,
          templates |-> f[i].templates]],
     segment_duration_sec |-> SegmentTicks]
InitEpoch ==
    /\ Quiescent
    /\ \E n \in 0..MaxEpochSegments :
          \E nums \in Perms(n), f \in [1..n -> SegmentSortings] : call = EpochCall(nums, f)
    /\ step = "called" /\ result = << >>

\* sorted(segment_sortings, key=lambda x: x['segment_num']): a stable sort
UnsortedBySegmentNum(list) == list
RECURSIVE SortedBySegmentNum(_)
SortedBySegmentNum(list) ==
    IF list = << >> THEN << >>
    ELSE LET m == CHOOSE i \in 1..Len(list) :
                      /\ \A j \in 1..Len(list) : list[i].segment_num <= list[j].segment_num
                      /\ \A j \in 1..(i - 1) : list[j].segment_num > list[i].segment_num
         IN  <<list[m]>> \o SortedBySegmentNum(SubSeq(list, 1, m - 1) \o SubSeq(list, m + 1, Len(list)))

\* np.concatenate of one field over the list
RECURSIVE Concatenate(_)
Concatenate(arrays) ==
    IF arrays = << >> THEN << >> ELSE Head(arrays) \o Concatenate(Tail(arrays))
\* seg_data['spike_times'] + segment_offset_sec
OffsetSpikeTimes(seg_data, segment_duration_sec) ==
    LET segment_offset_sec == (seg_data.segment_num - 1) * segment_duration_sec
    IN  [i \in 1..Len(seg_data.spike_times) |-> Float(seg_data.spike_times[i] + segment_offset_sec)]

\* lines 85-113: the row of one label; the division template_sum /
\* total_spike_count is kept as the pair of its operands
RECURSIVE WeightedSum(_, _, _)
LabelIdxIsLabel(seg_unique_labels, label) == label
LabelIdx(seg_unique_labels, label) ==
    CHOOSE k \in 1..Len(seg_unique_labels) : seg_unique_labels[k] = label
SpikeCount(seg_spike_labels, label) ==
    Cardinality({i \in 1..Len(seg_spike_labels) : seg_spike_labels[i] = label})
WeightedSum(segs, label, acc) ==
    IF segs = << >> THEN acc
    ELSE LET seg_data == Head(segs)
             spike_count == SpikeCount(seg_data.spike_labels, label)
             seg_unique_labels ==
                 SortedSeq({seg_data.spike_labels[i] : i \in 1..Len(seg_data.spike_labels)})
             label_idx == LabelIdx(seg_unique_labels, label)
         IN  IF spike_count > 0 /\ label_idx <= Len(seg_data.templates)
             THEN WeightedSum(Tail(segs), label,
                              [template_sum |-> acc.template_sum
                                                  + seg_data.templates[label_idx] * spike_count,
                               total_spike_count |-> acc.total_spike_count + spike_count])
             ELSE WeightedSum(Tail(segs), label, acc)
EpochTemplateRowsByMaxLabel(segs, spike_labels) ==
    LET unique_labels == SortedSeq({spike_labels[i] : i \in 1..Len(spike_labels)})
    IN  [i \in 1..(IF unique_labels = << >> THEN 0 ELSE unique_labels[Len(unique_labels)]) |->
            WeightedSum(segs, i, [template_sum |-> 0, total_spike_count |-> 0])]
EpochTemplateRows(segs, spike_labels) ==
    LET unique_labels == SortedSeq({spike_labels[i] : i \in 1..Len(spike_labels)})
    IN  [i \in 1..Len(unique_labels) |->
            WeightedSum(segs, unique_labels[i], [template_sum |-> 0, total_spike_count |-> 0])]

\* lines 40-71: the empty list, or the sort and the three concatenations
EpochConcatenate ==
    /\ call.fn = "compute_epoch_spike_sorting" /\ step = "called"
    /\ IF call.segment_sortings = << >>
       THEN /\ result' = [templates |-> << >>, spike_times |-> << >>, spike_labels |-> << >>,
                          spike_amplitudes |-> << >>, segment_sortings |-> << >>]
            /\ step' = "returned"
       ELSE LET segs == SortedBySegmentNum(call.segment_sortings)
            IN  /\ result' =
                      [templates |-> << >>,
                       spike_times |-> Concatenate(
                           [k \in 1..Len(segs) |->
                               OffsetSpikeTimes(segs[k], call.segment_duration_sec)]),
                       spike_labels |-> Concatenate([k \in 1..Len(segs) |-> segs[k].spike_labels]),
                       spike_amplitudes |-> Concatenate(
                           [k \in 1..Len(segs) |-> segs[k].spike_amplitudes]),
                       segment_sortings |-> segs]
                /\ step' = "running"
    /\ UNCHANGED call
    /\ UNCHANGED pipeVars
\* lines 73-117: no label at all, or one weighted-mean row per distinct label
EpochTemplates ==
    /\ call.fn = "compute_epoch_spike_sorting" /\ step = "running"
    /\ result' = [result EXCEPT
                     !.templates = EpochTemplateRows(result.segment_sortings, result.spike_labels)]
    /\ step' = "returned"
    /\ UNCHANGED call
    /\ UNCHANGED pipeVars
NextEpoch == EpochConcatenate \/ EpochTemplates
SpecEpoch == InitEpoch /\ [][NextEpoch]_vars

\* ---- the two functions that return a template array with spike labels
InitUnits == InitSort \/ InitEpoch
NextUnits == NextSort \/ NextEpoch
SpecUnits == InitUnits /\ [][NextUnits]_vars

\* ---- compute_unit_autocorrelogram (generate_preview.py)
\* Times are whole half-bins (bin_size_ms is 2 units), so that the bin edges,
\* which lie at odd multiples of half a bin, are integers.  A spike train is
\* the time-ordered spikes of one unit; window_bins is window_ms / bin_size_ms.
SortedTrains ==
    {q \in SeqsUpTo(0..MaxTrainTime, MaxTrainLen) :
        \A i \in 1..(Len(q) - 1) : q[i] <= q[i + 1]}
AcgCalls ==
    {[fn |-> "compute_unit_autocorrelogram", spike_train |-> q, window_bins |-> w] :
        q \in SortedTrains, w \in 1..MaxWindowBins}
InitAcg == Quiescent /\ call \in AcgCalls /\ step = "called" /\ result = << >>

\* num_bins = int(window_ms / bin_size_ms), made odd
NumBins(window_bins) == IF window_bins % 2 = 0 THEN window_bins - 1 ELSE window_bins
NumBinsHalf(num_bins) == (num_bins + 1) \div 2
\* (np.arange(num_bins + 1) - num_bins / 2) * bin_size_ms
BinEdges(num_bins) == [k \in 1..(num_bins + 1) |-> 2 * (k - 1) - num_bins]
\* times1[offset:] - times1[:-offset]
Deltas(times1, offset) ==
    [i \in 1..(Len(times1) - offset) |-> times1[i + offset] - times1[i]]
\* deltas_msec[deltas_msec <= bin_edges_msec[-1]]
WithinWindow(deltas_msec, last_edge) == SelectSeq(deltas_msec, LAMBDA d : d <= last_edge)
\* len(deltas_msec[(start_msec <= deltas_msec) & (deltas_msec < end_msec)])
CountIn(deltas_msec, start_msec, end_msec) ==
    Cardinality({i \in 1..Len(deltas_msec) :
                    start_msec <= deltas_msec[i] /\ deltas_msec[i] < end_msec})
\* the for loop over range(num_bins_half): bin num_bins_half - 1 + i and its
\* mirror num_bins_half - 1 - i both get the count, the centre bin twice
AddCounts(bin_counts, deltas_msec) ==
    LET num_bins == Len(bin_counts)
        half == NumBinsHalf(num_bins)
        edges == BinEdges(num_bins)
        ct(i) == CountIn(deltas_msec, edges[half + i], edges[half + i + 1])
    IN  [k \in 1..num_bins |->
            bin_counts[k] + (IF k >= half THEN ct(k - half) ELSE 0)
                          + (IF k <= half THEN ct(half - k) ELSE 0)]
\* the two breaks of the while loop
AcgStopAtFirstMiss(times1, offset, last_edge) ==
    \/ offset >= Len(times1)
    \/ \E i \in 1..(Len(times1) - offset) : Deltas(times1, offset)[i] > last_edge
AcgStop(times1, offset, last_edge) ==
    \/ offset >= Len(times1)
    \/ WithinWindow(Deltas(times1, offset), last_edge) = << >>

AcgStart ==
    /\ call.fn = "compute_unit_autocorrelogram" /\ step = "called"
    /\ result' = [bin_counts |-> [k \in 1..NumBins(call.window_bins) |-> 0], offset |-> 1]
    /\ step' = "running"
    /\ UNCHANGED call
    /\ UNCHANGED pipeVars
\* one pass of the while loop that does not break
AcgOffset ==
    /\ call.fn = "compute_unit_autocorrelogram" /\ step = "running"
    /\ LET num_bins == NumBins(call.window_bins)
           last_edge == BinEdges(num_bins)[num_bins + 1]
       IN  /\ ~AcgStop(call.spike_train, result.offset, last_edge)
           /\ result' = [bin_counts |->
                             AddCounts(result.bin_counts,
                                       WithinWindow(Deltas(call.spike_train, result.offset),
                                                    last_edge)),
                         offset |-> result.offset + 1]
    /\ UNCHANGED <<call, step>>
    /\ UNCHANGED pipeVars
\* the pass that breaks, and the return
AcgReturn ==
    /\ call.fn = "compute_unit_autocorrelogram" /\ step = "running"
    /\ LET num_bins == NumBins(call.window_bins)
       IN  AcgStop(call.spike_train, result.offset, BinEdges(num_bins)[num_bins + 1])
    /\ step' = "returned"
    /\ UNCHANGED <<call, result>>
    /\ UNCHANGED pipeVars
NextAcg == AcgStart \/ AcgOffset \/ AcgReturn
SpecAcg == InitAcg /\ [][NextAcg]_vars

\* ---- create_cluster_separation_view (generate_preview.py 317-422)
\* the labels that occur in an array of spike labels
LabelSet(spike_labels) == {spike_labels[i] : i \in 1..Len(spike_labels)}
\* A sorting as compute_spike_sorting saves it and generate_preview loads it:
\* the labels of the spikes (listed here by label; the builder reads them
\* only through spike_labels == unit_id) and one template row per label
\* present, in the order of the labels.  A template is one number, so that
\* the norm of a difference is its absolute value.  in_range[i] says that the
\* frame index of spike i lies within shifted_data.
SepSpikeLabels ==
    {q \in SeqsUpTo(1..MaxSepLabel, MaxSepSpikes) :
        \A i \in 1..(Len(q) - 1) : q[i] <= q[i + 1]}
SepInRanges(n) ==
    {[i \in 1..n |-> i # j] : j \in 0..n}
SepCall(templates, spike_labels, in_range, num_neighbors) ==
    [fn |-> "create_cluster_separation_view", templates |-> templates,
     spike_labels |-> spike_labels, in_range |-> in_range, num_neighbors |-> num_neighbors]
InitSep ==
    /\ Quiescent
    /\ \E spike_labels \in SepSpikeLabels :
       \E templates \in [1..Cardinality(LabelSet(spike_labels)) -> 0..MaxSepTemplate] :
       \E in_range \in SepInRanges(Len(spike_labels)) :
       \E num_neighbors \in 1..MaxSepNeighbors :
          /\ num_neighbors + 1 <= Len(templates)
          /\ call = SepCall(templates, spike_labels, in_range, num_neighbors)
    /\ step = "called" /\ result = << >>

\* find_nearest_neighbors(templates, n): for one row, the indices of its n
\* nearest rows, nearest first; rows at equal distance come in any order
NearestNeighbors(templates, unit_idx, n) ==
    {q \in [1..n -> 1..Len(templates)] :
        /\ \A i, j \in 1..n : i # j => q[i] # q[j]
        /\ \A i, j \in 1..n :
              i < j => Dist(templates[unit_idx], templates[q[i]])
                         <= Dist(templates[unit_idx], templates[q[j]])
        /\ \A w \in 1..Len(templates) :
              (\A i \in 1..n : q[i] # w) =>
                  Dist(templates[unit_idx], templates[q[n]])
                      <= Dist(templates[unit_idx], templates[w])}
\* np.where(spike_labels == unit_id)[0]
SpikeInds(spike_labels, unit_id) == {i \in 1..Len(spike_labels) : spike_labels[i] = unit_id}
\* spike_frames[valid_frames]
ValidFrames(spike_inds, in_range) == {i \in spike_inds : in_range[i]}
\* tuple(sorted([unit_id, neighbor_id]))
PairKey(unit_id, neighbor_id) ==
    IF unit_id <= neighbor_id THEN <<unit_id, neighbor_id>> ELSE <<neighbor_id, unit_id>>
\* the three `continue`s after the pair is recorded.  Rows and unit ids are
\* both counted from 1 here: unit_id is the row of the unit's template.
SepSkips(c, unit_id, neighbor_id) ==
    \/ Cardinality(SpikeInds(c.spike_labels, unit_id)) < 2
    \/ Cardinality(SpikeInds(c.spike_labels, neighbor_id)) < 2
    \/ Dist(c.templates[unit_id], c.templates[neighbor_id]) = 0
    \/ ValidFrames(SpikeInds(c.spike_labels, unit_id), c.in_range) = {}
    \/ ValidFrames(SpikeInds(c.spike_labels, neighbor_id), c.in_range) = {}
\* ClusterSeparationViewItem: the projections are kept as the spikes whose
\* waveforms are projected and the two template rows that give the axis
SepItem(c, unit_id, neighbor_id) ==
    [unit_id_1 |-> unit_id, unit_id_2 |-> neighbor_id,
     template_rows |-> <<unit_id, neighbor_id>>,
     projections_1 |-> ValidFrames(SpikeInds(c.spike_labels, unit_id), c.in_range),
     projections_2 |-> ValidFrames(SpikeInds(c.spike_labels, neighbor_id), c.in_range)]
\* the inner loop over neighbor_indices[unit_idx, 1:]
RECURSIVE SepNeighbors(_, _, _, _)
SepNeighbors(c, unit_id, neighbor_unit_indices, acc) ==
    IF neighbor_unit_indices = << >> THEN acc
    ELSE LET neighbor_id == Head(neighbor_unit_indices)
             pair_key == PairKey(unit_id, neighbor_id)
             next == IF pair_key \in acc.processed_pairs THEN acc
                     ELSE [acc EXCEPT
                             !.processed_pairs = @ \cup {pair_key},
                             !.separation_items =
                                 IF SepSkips(c, unit_id, neighbor_id) THEN @
                                 ELSE Append(@, SepItem(c, unit_id, neighbor_id))]
         IN  SepNeighbors(c, unit_id, Tail(neighbor_unit_indices), next)

SepStart ==
    /\ call.fn = "create_cluster_separation_view" /\ step = "called"
    /\ result' = [unit_id |-> 1, processed_pairs |-> {}, separation_items |-> << >>]
    /\ step' = "running"
    /\ UNCHANGED call
    /\ UNCHANGED pipeVars
\* one pass of the loop over the units
SepUnit ==
    /\ call.fn = "create_cluster_separation_view" /\ step = "running"
    /\ result.unit_id <= Len(call.templates)
    /\ \E q \in NearestNeighbors(call.templates, result.unit_id, call.num_neighbors + 1) :
          result' = [SepNeighbors(call, result.unit_id, Tail(q), result)
                        EXCEPT !.unit_id = result.unit_id + 1]
    /\ UNCHANGED <<call, step>>
    /\ UNCHANGED pipeVars
SepReturn ==
    /\ call.fn = "create_cluster_separation_view" /\ step = "running"
    /\ result.unit_id > Len(call.templates)
    /\ step' = "returned"
    /\ UNCHANGED <<call, result>>
    /\ UNCHANGED pipeVars
NextSep == SepStart \/ SepUnit \/ SepReturn
SpecSep == InitSep /\ [][NextSep]_vars

\* ---- realtime512b serve: the read-only API (serve/api_handlers.py)
\* The server is a process of its own beside the driver.  A request can come
\* at any moment of a tick and is answered from the tree as it is then.
\* os.path.exists of a path under computed/: a directory that no processor
\* makes is not there
ApiExists(f, a) == a \in Paths /\ Exists(f, a)
ApiAllExist(f, a) == a \in Paths /\ AllExist(f, a)
\* has_epoch_sorting and has_epoch_preview, computed alike by both handlers
EpochFlags(f, epoch_id) ==
    [has_epoch_sorting |-> ApiAllExist(f, <<"epoch_spike_sorting", epoch_id, 0>>),
     has_epoch_preview |-> ApiExists(f, <<"epoch_preview", epoch_id, 0>>)]
\* GET epochs: one entry per directory of raw/
GetEpochsHandler ==
    /\ step = "idle"
    /\ call' = [fn |-> "get_epochs_handler"]
    /\ result' = [status |-> 200,
                  epochs |-> [b \in {b \in Blocks : rawDir[b]} |-> EpochFlags(files, b)]]
    /\ step' = "returned"
    /\ UNCHANGED pipeVars
\* GET epoch detail: 404 when raw/<epoch_id> is missing
GetEpochDetailHandler(epoch_id) ==
    /\ step = "idle"
    /\ call' = [fn |-> "get_epoch_detail_handler", epoch_id |-> epoch_id]
    /\ result' = IF ~rawDir[epoch_id]
                 THEN [status |-> 404, epochs |-> << >>]
                 ELSE [status |-> 200,
                       epochs |-> [b \in {epoch_id} |-> EpochFlags(files, b)]]
    /\ step' = "returned"
    /\ UNCHANGED pipeVars
InitServe == Init /\ refFile = <<1, 1>>
NextServe ==
    \/ \E b \in Blocks : Arrive(b)
    \/ \E b \in Blocks : Settle(b)
    \/ DriverNext
    \/ GetEpochsHandler
    \/ \E epoch_id \in Blocks : GetEpochDetailHandler(epoch_id)
SpecServe == InitServe /\ [][NextServe]_vars

\* ---- startup (run_start.py 51-93, config_utils.py)
\* realtime512b.yaml as yaml.safe_load returns it: the keys present, what
\* isinstance finds, and the values the comparisons read
RequiredFields ==
    {"sampling_frequency", "n_channels", "raw_segment_duration_sec", "use_bin2py",
     "filter_params", "detect_threshold_for_spike_stats", "coarse_sorting_detect_threshold",
     "high_activity_threshold"}
RequiredFilterFields == {"lowcut", "highcut", "order"}
\* a set with at most one element missing
AllButOne(S) == {S} \cup {S \ {f} : f \in S}
ConfigFiles ==
    {[exists |-> FALSE]}
    \cup [exists : {TRUE},
          present : AllButOne(RequiredFields),
          filter_params_is_dict : BOOLEAN,
          filter_params : AllButOne(RequiredFilterFields),
          sampling_frequency_is_numeric : BOOLEAN,
          n_channels_is_int : BOOLEAN,
          n_channels : 1..MaxConfigChannels,
          detect_threshold_for_spike_stats : {-1, 0},
          coarse_sorting_detect_threshold : {-1, 0},
          high_activity_threshold : {-1, 0}]
\* electrode_coords.txt: each line is blank, holds two numbers, or is malformed
LineKinds == {"blank", "x y", "x", "x y z", "x text"}
CoordFiles ==
    {[exists |-> FALSE]}
    \cup [exists : {TRUE}, lines : SeqsUpTo(LineKinds, MaxCoordLines)]

\* _validate_config: every failed check ends in sys.exit(1)
ValidateConfigExits(config) ==
    \/ \E field \in RequiredFields : field \notin config.present
    \/ ~config.filter_params_is_dict
    \/ \E field \in RequiredFilterFields : field \notin config.filter_params
    \/ ~config.sampling_frequency_is_numeric
    \/ ~config.n_channels_is_int
    \/ config.detect_threshold_for_spike_stats >= 0
    \/ config.coarse_sorting_detect_threshold >= 0
    \/ config.high_activity_threshold < 0
\* load_config
LoadConfigExits(config_file) == ~config_file.exists \/ ValidateConfigExits(config_file)
\* load_electrode_coords
StrippedLines(coords_file) == SelectSeq(coords_file.lines, LAMBDA l : l # "blank")
LoadElectrodeCoordsExitsNoCount(coords_file, n_channels) ==
    \/ ~coords_file.exists
    \/ \E i \in 1..Len(StrippedLines(coords_file)) : StrippedLines(coords_file)[i] # "x y"
LoadElectrodeCoordsExits(coords_file, n_channels) ==
    \/ ~coords_file.exists
    \/ Len(StrippedLines(coords_file)) # n_channels
    \/ \E i \in 1..Len(StrippedLines(coords_file)) : StrippedLines(coords_file)[i] # "x y"

\* the process has been started in a directory where nothing was computed
\* and no reference is designated
InitStartup ==
    /\ acq = [b \in Blocks |-> "none"]
    /\ content = [b \in Blocks |-> << >>]
    /\ rawDir = [b \in Blocks |-> FALSE]
    /\ rawData = [b \in Blocks |-> << >>]
    /\ files = [a \in Paths |-> 0]
    /\ refFile = RefAbsent
    /\ reference_segment = None
    /\ pc = "load_config"
    /\ wr = {}
    /\ something_processed = FALSE
    /\ writes = [a \in Paths |-> 0]
    /\ tickWrote = [s \in Writers |-> {}]
    /\ trace = << >>
    /\ fullAtStart = FALSE
    /\ raised = None
    /\ refSets = 0
    /\ rewrites = 0
    /\ failedReads = {}
    /\ call = NoCall /\ step = "idle" /\ result = << >>
StartupUnchanged ==
    UNCHANGED <<acq, content, rawDir, rawData, files, refFile, reference_segment, wr,
                something_processed, writes, tickWrote, trace, fullAtStart, raised, refSets,
                rewrites, failedReads>>
\* config = load_config()
LoadConfig ==
    /\ pc = "load_config"
    /\ \E config_file \in ConfigFiles :
          /\ call' = [fn |-> "run_start", config |-> config_file]
          /\ pc' = IF LoadConfigExits(config_file) THEN "exited" ELSE "load_electrode_coords"
    /\ UNCHANGED <<step, result>>
    /\ StartupUnchanged
\* electrode_coords = load_electrode_coords(n_channels)
LoadElectrodeCoords ==
    /\ pc = "load_electrode_coords"
    /\ \E coords_file \in CoordFiles :
          /\ result' = coords_file
          /\ pc' = IF LoadElectrodeCoordsExits(coords_file, call.config.n_channels)
                   THEN "exited" ELSE "setup_directories"
    /\ step' = "coords_read"
    /\ UNCHANGED call
    /\ StartupUnchanged
\* os.makedirs(raw_dir), os.makedirs(computed_dir), the EpochBlockProcessor,
\* and the entry into the loop
SetupDirectories ==
    /\ pc = "setup_directories"
    /\ pc' = "sleep"
    /\ UNCHANGED <<call, step, result>>
    /\ StartupUnchanged
\* the startup, then the loop as long as no reference is designated
NextStartup ==
    \/ LoadConfig
    \/ LoadElectrodeCoords
    \/ SetupDirectories
    \/ \E b \in Blocks : Arrive(b)
    \/ \E b \in Blocks : Settle(b)
    \/ Sleep
    \/ ProcessEpochBlocks
    \/ WriteStep
    \/ GetReference
    \/ Status
SpecStartup == InitStartup /\ [][NextStartup]_vars

\* ---- one sorting directory as its stage finds it (file_processors.py
\* 372-419, 481-534, 684-768)
\* The prerequisites of the stage hold.  The directory may be left from a
\* run that was killed or that raised: it is absent, or holds any of the
\* four files.
RequiredFiles == {"spike_times.npy", "spike_labels.npy", "spike_amplitudes.npy", "templates.npy"}
\* the order of the np.save calls
SaveOrder == <<"templates.npy", "spike_times.npy", "spike_labels.npy", "spike_amplitudes.npy">>
SortingStages == {"reference_sorting", "spike_sorting", "epoch_block_spike_sorting"}
SortingDirCalls ==
    {[fn |-> "process_sorting", stage |-> k, dir_exists |-> FALSE, present |-> {}] :
        k \in SortingStages}
    \cup {[fn |-> "process_sorting", stage |-> k, dir_exists |-> TRUE, present |-> F] :
            k \in SortingStages, F \in SUBSET RequiredFiles}
InitSortingDir == Quiescent /\ call \in SortingDirCalls /\ step = "called" /\ result = << >>
\* all(os.path.exists(os.path.join(sorting_dir, f)) for f in required_files)
AnyExistIn(present) == \E f \in RequiredFiles : f \in present
AllExistIn(present) == \A f \in RequiredFiles : f \in present
\* the existence test, then os.makedirs(sorting_dir, exist_ok=True)
SortingDirCheck ==
    /\ call.fn = "process_sorting" /\ step = "called"
    /\ IF call.dir_exists /\ AllExistIn(call.present)
       THEN /\ result' = [processed |-> FALSE, present |-> call.present, saved |-> << >>]
            /\ step' = "returned"
       ELSE /\ result' = [processed |-> FALSE, present |-> call.present, saved |-> << >>]
            /\ step' = "computing"
    /\ UNCHANGED call
    /\ UNCHANGED pipeVars
\* the next np.save; after the fourth the stage returns True
SortingDirSave ==
    /\ call.fn = "process_sorting" /\ step = "computing"
    /\ LET f == SaveOrder[Len(result.saved) + 1]
       IN  result' = [processed |-> Len(result.saved) + 1 = Len(SaveOrder),
                      present |-> result.present \cup {f},
                      saved |-> Append(result.saved, f)]
    /\ step' = IF Len(result.saved) + 1 = Len(SaveOrder) THEN "returned" ELSE "computing"
    /\ UNCHANGED call
    /\ UNCHANGED pipeVars
NextSortingDir == SortingDirCheck \/ SortingDirSave
SpecSortingDir == InitSortingDir /\ [][NextSortingDir]_vars

\* ------------------------------------------------------------ claims
\* the segment an artifact path belongs to
SegOf(a) == <<a[2], a[3]>>

\* C1: within one tick each of the ten stages begins at most one artifact,
\* however many items are eligible for it.
C1_AtMostOnePerStage == \A s \in Stages : Cardinality(tickWrote[s]) <= 1
\* filtering has written one segment in this tick and left another one pending
C1_Witness ==
    pc = "shift_coeffs" /\ tickWrote["filtering"] # {} /\ FilteringPending # {}

\* C2: an artifact that exists is never written again, and a tick that starts
\* on a fully computed tree writes nothing and reports nothing processed.
C2_NeverRecomputed ==
    /\ [](pc = "status" /\ fullAtStart =>
            ~something_processed /\ \A w \in Writers : tickWrote[w] = {})
    /\ [][\A a \in Paths :
            (IF IsSort(a) THEN AllExist(files, a) ELSE Exists(files, a))
                => writes'[a] = writes[a]]_vars
\* a whole tick has run on a fully computed tree
C2_Witness == pc = "status" /\ fullAtStart

\* reference_segment.txt is absent or empty, or names a segment not in raw/
C3_RefNotReady ==
    refFile \in {RefAbsent, RefEmpty} \/ ~Exists(files, P("raw", refFile))

\* C3: while reference_segment.txt is absent or empty, or names a segment that
\* is not in raw/, no stage runs and nothing is written under computed/; the
\* tick still ingests every settled readable block.
C3_GatedOnReference ==
    (pc # "sleep" /\ C3_RefNotReady) =>
        /\ pc \notin Stages
        /\ \A s \in Stages : tickWrote[s] = {}
        /\ \A a \in wr : a[1] = "raw"
        /\ (pc = "status" => Ingestible = {})
\* a tick ingested a block while the designation named a segment not in raw/
C3_Witness ==
    /\ pc = "status" /\ refFile \in Segs /\ C3_RefNotReady
    /\ tickWrote["ingest"] # {}
    /\ FilteringPending # {}

\* C4: every path that exists holds complete content, in every state
\* (original claim; the writers write the destination path in place).
C4_ExistingIsComplete ==
    \A a \in Paths : FilesExisting(a, files[a]) = FilesComplete(a, files[a])

\* C5: an exception raised inside a stage is caught at the stage boundary and
\* the driver loop goes on (original claim; nothing catches it).
C5_StageExceptionCaught == raised # None => pc # "crashed"

\* C6: classifying a non-empty query against an empty reference catalog is an
\* error of that call and then none of the four files of the segment is
\* written; an empty query never raises, whatever the reference.
C6_EmptyReferenceAborts ==
    /\ [](raised # None =>
            /\ Active(raised) /\ ~Active(reference_segment)
            /\ FilesExisting(P("spike_sorting", raised), files[P("spike_sorting", raised)]) = 0)
    /\ [][\A a \in Paths :
            (a[1] = "spike_sorting" /\ files[a] = 0 /\ files'[a] >= 1)
            => IF Active(SegOf(a)) /\ ~Active(reference_segment)
               THEN raised' = SegOf(a) /\ files'[a] = 1 /\ wr' = {}
               ELSE raised' = None /\ a \in wr']_vars
\* a quiet segment was classified against an empty catalog without error, and
\* then the classification of an active segment raised
C6_Witness ==
    /\ raised # None
    /\ \E s \in Segs : ~Active(s) /\ files[P("spike_sorting", s)] = 2 * NumSortFiles + 1

\* C7: artifact presence is monotonic: a raw segment, a derived file or a raw
\* directory that exists still exists in every later state.
C7_PresenceMonotonic ==
    [][/\ \A a \in Paths :
             /\ FilesExisting(a, files'[a]) >= FilesExisting(a, files[a])
             /\ (files[a] >= 1 => files'[a] >= 1)
       /\ \A b \in Blocks : rawDir[b] => rawDir'[b]]_vars
\* artifacts of earlier ticks exist while a later stage writes a new one
C7_Witness ==
    /\ files[CoeffsPath] = 2 /\ tickWrote["preview"] # {}
    /\ \E a \in Paths : a[1] = "filt" /\ files[a] = 2 /\ a \notin tickWrote["filtering"]

\* C8: every artifact path is written at most once over the whole execution.
C8_AtMostOneWrite == \A a \in Paths : writes[a] <= 1
\* a block has been taken through every stage, each of its artifacts written once
C8_Witness ==
    \E b \in Blocks :
        /\ files[BP("epoch_block_preview", b)] = 2
        /\ \A n \in RawSegs(files, b) : files[<<"preview", b, n>>] = 2
        /\ \A a \in Paths : (a[2] = b /\ files[a] >= 1) => writes[a] = 1

\* the order of the stages the specification states
C9_Order ==
    <<"filtering", "shift_coeffs", "shifting", "stats", "high_activity",
      "reference_sorting", "spike_sorting", "epoch_block_spike_sorting",
      "epoch_block_preview", "preview">>

\* C9: within a tick the stages are attempted in the fixed order; what an
\* earlier stage wrote is seen by the later stages of the same tick, and a
\* stage that has not yet run in the tick has written nothing in it.
C9_FixedStageOrder ==
    /\ Len(trace) <= Len(C9_Order)
    /\ \A i \in 1..Len(trace) : trace[i] = C9_Order[i]
    /\ \A i \in 1..Len(C9_Order) : i > Len(trace) => tickWrote[C9_Order[i]] = {}
    /\ (pc = "status" /\ trace # << >>) =>
          \A s \in Stages : tickWrote[s] = {} => Targets(s) = {}
\* one tick filtered the reference segment, estimated the shift coefficients
\* from it and shifted it
C9_Witness ==
    /\ pc = "status"
    /\ tickWrote["filtering"] = {P("filt", reference_segment)}
    /\ tickWrote["shift_coeffs"] = {CoeffsPath}
    /\ tickWrote["shifting"] = {P("shifted", reference_segment)}

\* C10: a block with a file whose sample count is not a multiple of n_channels
\* is rejected: no raw directory, no raw segment (original claim; the file is
\* skipped and the block is ingested from its other files).
C10_MismatchRejected ==
    \A b \in Blocks :
        (acq[b] = "settled" /\ \E i \in 1..Len(content[b]) : content[b][i] = "bad")
            => ~rawDir[b] /\ RawSegs(files, b) = {}

\* C11: a block whose read fails does not end the scan or the tick: its raw
\* directory is not created, the other settled blocks of the same scan are
\* ingested, and the block is read again in the scan of every later tick in
\* which it is still settled, until a read succeeds.
C11_ReadFailureNotFatal ==
    /\ [](pc \notin {"sleep", "ingest"} =>
            \A b \in Blocks : (acq[b] = "settled" /\ ~rawDir[b]) =>
                b \in failedReads /\ RawSegs(files, b) = {})
    /\ [][(pc = "ingest" /\ wr = {}) =>
            /\ pc' \in {"ingest", "get_reference"}
            /\ \A b \in Blocks : (acq[b] = "settled" /\ ~rawDir[b]) =>
                  IF \A i \in 1..Len(content[b]) : content[b][i] = "bad"
                  THEN ~rawDir'[b] /\ RawSegs(files', b) = {} /\ b \in failedReads'
                  ELSE rawDir'[b] /\ RawSegs(files', b) # {}]_vars
\* one scan failed to read a block and ingested another one, whose read had
\* failed in an earlier tick before its files were rewritten
C11_Witness ==
    /\ pc = "get_reference"
    /\ \E b, c \in Blocks :
          /\ b < c /\ acq[b] = "settled" /\ ~rawDir[b]
          /\ c \in failedReads /\ <<"raw", c, 1>> \in tickWrote["ingest"]

\* C13: once the raw directory of a block exists and its segments are written,
\* no step writes, adds or replaces a raw segment of the block, also when
\* the acquisition files of the block change afterwards.
C13_MaterializedOnce ==
    [][\A b \in Blocks :
          (rawDir[b] /\ \A n \in SegNums : <<"raw", b, n>> \notin wr) =>
              /\ rawDir'[b] /\ rawData'[b] = rawData[b]
              /\ \A n \in SegNums : /\ files'[<<"raw", b, n>>] = files[<<"raw", b, n>>]
                                     /\ writes'[<<"raw", b, n>>] = writes[<<"raw", b, n>>]]_vars
\* a scan has passed over a materialized block whose acquisition files were
\* rewritten with other data and have settled again
C13_Witness ==
    /\ pc = "status"
    /\ \E b \in Blocks :
          /\ rawDir[b] /\ acq[b] = "settled" /\ GoodFiles(content[b]) # rawData[b]
          /\ Len(GoodFiles(content[b])) > Len(rawData[b])
          /\ \A n \in SegNums : files[<<"raw", b, n>>] = (IF n <= Len(rawData[b]) THEN 2 ELSE 0)

\* C12: a block is valid for ingestion exactly when it holds at least one
\* file and every file in it, at any depth, was last modified strictly more
\* than 5 s ago; a file modified 5 s ago or less keeps the block out
\* (original claim; the code tests `current_time - mtime < 5`).
C12_SettledStrictlyOlder ==
    (call.fn = "_get_valid_epoch_blocks" /\ step = "returned") =>
        (result.valid <=>
            (Len(call.ages) >= 1 /\ \A i \in 1..Len(call.ages) : call.ages[i] > 5))

\* C14: a matrix of n_samples frames becomes exactly N = floor(n_samples / S)
\* segment files numbered 1..N without gaps; segment i holds the frames
\* (i-1)*S up to i*S - 1 of the matrix in order, the frames from N*S on are in
\* no segment, and with N = 0 the raw directory exists and holds no segment.
C14_ChunkedIntoWindows ==
    (call.fn = "_chunk_to_segments" /\ step = "returned") =>
        LET n == Len(call.data)
            S == call.samples_per_segment
            N == CHOOSE q \in 0..n : q * S <= n /\ n < (q + 1) * S
        IN  /\ result.dir_exists
            /\ result.n_segments = N
            /\ DOMAIN result.segment_files = 1..N
            /\ \A i \in 1..N :
                  /\ Len(result.segment_files[i]) = S
                  /\ \A k \in 1..S : result.segment_files[i][k] = (i - 1) * S + (k - 1)
\* a matrix was cut into two or more segments and its trailing frames dropped
C14_Witness ==
    /\ call.fn = "_chunk_to_segments" /\ step = "returned"
    /\ result.n_segments >= 2
    /\ Len(call.data) > result.n_segments * call.samples_per_segment

\* C15: with a reference that is not empty, the classification of any query
\* returns without error one label per query row, and every label it returns
\* is the label of some reference row.
C15_OneReferenceLabelPerRow ==
    (call.fn = "match_spikes_to_reference" /\ step = "returned"
     /\ Len(call.reference_frames) >= 1) =>
        /\ ~result.raised
        /\ Len(result.matched_labels) = Len(call.spike_frames)
        /\ \A i \in 1..Len(result.matched_labels) :
              \E a \in 1..Len(call.reference_labels) :
                  result.matched_labels[i] = call.reference_labels[a]
\* two query rows were classified against a reference that holds only the
\* largest label
C15_Witness ==
    /\ call.fn = "match_spikes_to_reference" /\ step = "returned"
    /\ Len(call.spike_frames) = 2 /\ Len(call.reference_frames) >= 2
    /\ \A a \in 1..Len(call.reference_labels) : call.reference_labels[a] = MaxLabel

\* C16: each query row is voted on by its k = min(n_neighbors, number of
\* reference rows) nearest reference rows; the row gets the label that most
\* of these neighbours carry, and among labels with the same highest count
\* the smallest one.
C16_MajorityVoteSmallestOnTie ==
    (call.fn = "match_spikes_to_reference" /\ step = "returned"
     /\ Len(call.reference_frames) >= 1) =>
        \A i \in 1..Len(call.spike_frames) :
            LET N == result.nearest_inds[i]
                rows == 1..Len(call.reference_frames)
                votes(l) == Cardinality({a \in N : call.reference_labels[a] = l})
                best == result.matched_labels[i]
            IN  /\ N \subseteq rows
                /\ Cardinality(N) = (IF call.n_neighbors <= Len(call.reference_frames)
                                      THEN call.n_neighbors ELSE Len(call.reference_frames))
                /\ \A a \in N : \A b \in rows \ N :
                      Dist(call.reference_frames[a], call.spike_frames[i])
                          <= Dist(call.reference_frames[b], call.spike_frames[i])
                /\ votes(best) >= 1
                /\ \A l \in Labels : votes(l) <= votes(best)
                /\ \A l \in Labels : votes(l) = votes(best) => best <= l
\* a row was voted on by fewer reference rows than the reference holds, and
\* two labels had the same number of votes
C16_Witness ==
    /\ call.fn = "match_spikes_to_reference" /\ step = "returned"
    /\ call.n_neighbors < Len(call.reference_frames)
    /\ \E i \in 1..Len(call.spike_frames) :
          LET N == result.nearest_inds[i]
          IN  /\ Cardinality({a \in N : call.reference_labels[a] = 1}) = 1
              /\ Cardinality({a \in N : call.reference_labels[a] = 2}) = 1

\* C18: the labels a segment's sorting returns are labels of the reference
\* catalog and each still denotes the reference unit the vote assigned to the
\* spike, also after the canonical remap (original claim; the remap renames
\* the units among the labels that occur in the segment).
C18_LabelsDenoteReferenceUnits ==
    (call.fn = "compute_spike_sorting" /\ step = "returned") =>
        /\ Len(result.spike_labels) = Len(call.matched_labels)
        /\ \A i \in 1..Len(result.spike_labels) :
              result.spike_labels[i] = call.matched_labels[i]

\* C19: the templates returned are in canonical order: the x-coordinate of
\* the peak channel of row i is at most that of row i+1.
C19_TemplatesInCanonicalOrder ==
    (call.fn = "compute_spike_sorting" /\ step = "returned") =>
        \A i \in 1..(Len(result.templates) - 1) :
            PeakChannelX(result.templates[i], call.electrode_x)
                <= PeakChannelX(result.templates[i + 1], call.electrode_x)
\* two units were returned whose templates had to change places
C19_Witness ==
    /\ call.fn = "compute_spike_sorting" /\ step = "returned"
    /\ Len(result.templates) = 2
    /\ PeakChannelX(result.templates[1], call.electrode_x)
           < PeakChannelX(result.templates[2], call.electrode_x)
    /\ result.templates # Templates(call.frames, call.matched_labels)

\* C20: applying the canonicalization to templates and labels that are its
\* own output changes neither the template array nor any spike label
\* (original claim; np.argsort may reorder templates with equal peak x).
C20_RemapIdempotent ==
    (call.fn = "compute_spike_sorting" /\ step = "reapplied") =>
        /\ result.again.templates = result.templates
        /\ result.again.spike_labels = result.spike_labels

\* C21: the classifier and the epoch aggregator return as many template rows
\* as there are distinct labels in the spike_labels they return; for the
\* aggregator this is the number of labels in the union over its input
\* segments.
C21_TemplateRowsEqualLabels ==
    (step = "returned" /\ call.fn \in {"compute_spike_sorting", "compute_epoch_spike_sorting"}) =>
        /\ Len(result.templates)
              = Cardinality({result.spike_labels[i] : i \in 1..Len(result.spike_labels)})
        /\ call.fn = "compute_epoch_spike_sorting" =>
              Len(result.templates)
                = Cardinality(UNION {{call.segment_sortings[k].spike_labels[i] :
                                         i \in 1..Len(call.segment_sortings[k].spike_labels)} :
                                     k \in 1..Len(call.segment_sortings)})
\* two segments with different single labels were aggregated into two units
C21_Witness ==
    /\ step = "returned" /\ call.fn = "compute_epoch_spike_sorting"
    /\ Len(call.segment_sortings) = 2
    /\ \A k \in 1..2 : Len(call.segment_sortings[k].templates) = 1
    /\ Len(result.templates) = 2
\* C22: a segment in which no spike is detected is sorted without error
\* whatever the reference catalog holds: starting its classification never
\* raises, the four files of its sorting directory get written, and once they
\* are complete the segment is no target of the stage and is written no
\* second time.
C22_QuietSegmentSorted ==
    /\ [](\A a \in Paths : a[1] = "spike_sorting" /\ ~Active(<<a[2], a[3]>>) =>
             /\ writes[a] <= 1
             /\ raised # <<a[2], a[3]>>
             /\ (AllExist(files, a) => a \notin SpikeSortingTargets))
    /\ [][\A a \in Paths :
             a[1] = "spike_sorting" /\ ~Active(<<a[2], a[3]>>) =>
                /\ (pc = "spike_sorting" /\ wr = {} /\ a \in SpikeSortingTargets =>
                       pc' # "crashed" /\ raised' = raised /\ a \in wr')
                /\ (a \in wr /\ a \notin wr' =>
                       AllExist(files', a) /\ something_processed')]_vars
\* the sorting of a quiet segment is complete although the reference catalog
\* is empty, and a later tick has reached the stage and has nothing to do
C22_Witness ==
    \E a \in Paths :
        /\ a[1] = "spike_sorting" /\ ~Active(<<a[2], a[3]>>)
        /\ AllExist(files, a) /\ writes[a] = 1
        /\ reference_segment \in Segs /\ RefCatalogEmpty(reference_segment)
        /\ pc = "epoch_block_spike_sorting"
        /\ tickWrote["spike_sorting"] = {}
        /\ trace # << >> /\ trace[Len(trace)] = "spike_sorting"
\* the entry of the input list that holds segment n, and the number of spikes
\* of the segments before n
EpochSegment(n) ==
    call.segment_sortings[CHOOSE k \in 1..Len(call.segment_sortings) :
                              call.segment_sortings[k].segment_num = n]
RECURSIVE SpikesBefore(_)
SpikesBefore(n) ==
    IF n <= 1 THEN 0 ELSE SpikesBefore(n - 1) + Len(EpochSegment(n - 1).spike_times)

\* C23: every spike of segment n appears in the combined arrays with its
\* segment-relative time plus exactly (n - 1) * segment_duration, and with its
\* label and amplitude unchanged (original claim; the sum is stored as a
\* float32 and is rounded).
C23_OffsetExact ==
    (call.fn = "compute_epoch_spike_sorting" /\ step = "returned") =>
        \A k \in 1..Len(call.segment_sortings) :
            LET seg == call.segment_sortings[k]
            IN  \A i \in 1..Len(seg.spike_times) :
                    \E j \in 1..Len(result.spike_times) :
                        /\ result.spike_times[j]
                              = seg.spike_times[i]
                                  + (seg.segment_num - 1) * call.segment_duration_sec
                        /\ result.spike_labels[j] = seg.spike_labels[i]
                        /\ result.spike_amplitudes[j] = seg.spike_amplitudes[i]

\* C24: the combined arrays are the per-segment arrays one after the other in
\* ascending segment number, whatever the order of the input list: the three
\* arrays have the same length, the sum of the segments' spike counts, and
\* the i-th spike of segment n sits at index (spikes of segments before n) + i
\* in all three, so the order within a segment is kept and nothing is sorted
\* by time.
C24_ConcatenatedInSegmentOrder ==
    (call.fn = "compute_epoch_spike_sorting" /\ step = "returned") =>
        LET N == Len(call.segment_sortings)
        IN  /\ Len(result.spike_times) = SpikesBefore(N + 1)
            /\ Len(result.spike_labels) = SpikesBefore(N + 1)
            /\ Len(result.spike_amplitudes) = SpikesBefore(N + 1)
            /\ \A n \in 1..N :
                   LET seg == EpochSegment(n)
                   IN  \A i \in 1..Len(seg.spike_times) :
                           LET j == SpikesBefore(n) + i
                           IN  /\ result.spike_times[j]
                                     = Float(seg.spike_times[i]
                                               + (n - 1) * call.segment_duration_sec)
                               /\ result.spike_labels[j] = seg.spike_labels[i]
                               /\ result.spike_amplitudes[j] = seg.spike_amplitudes[i]
\* the list was passed with segment 2 first, and segment 1 holds two spikes
\* in decreasing time, which stay in that order at the head of the result
C24_Witness ==
    /\ call.fn = "compute_epoch_spike_sorting" /\ step = "returned"
    /\ Len(call.segment_sortings) = 2
    /\ call.segment_sortings[1].segment_num = 2
    /\ Len(call.segment_sortings[1].spike_times) = 1
    /\ call.segment_sortings[2].spike_times = <<1, 0>>
    /\ Len(result.spike_times) = 3
    /\ result.spike_times[1] > result.spike_times[2]
    /\ result.spike_labels[3] = call.segment_sortings[1].spike_labels[1]

\* the weighted sum and the weight of a label over the segments 1..n, the
\* template of a label in a segment being the row at the rank of the label
\* among the segment's distinct labels
LabelsOf(seg) == {seg.spike_labels[i] : i \in 1..Len(seg.spike_labels)}
RankOf(seg, label) == Cardinality({l \in LabelsOf(seg) : l <= label})
RECURSIVE TemplateSumUpTo(_, _)
TemplateSumUpTo(n, label) ==
    IF n = 0 THEN 0
    ELSE LET seg == EpochSegment(n)
         IN  TemplateSumUpTo(n - 1, label)
               + (IF label \in LabelsOf(seg)
                  THEN seg.templates[RankOf(seg, label)] * SpikeCount(seg.spike_labels, label)
                  ELSE 0)
RECURSIVE WeightUpTo(_, _)
WeightUpTo(n, label) ==
    IF n = 0 THEN 0
    ELSE WeightUpTo(n - 1, label) + SpikeCount(EpochSegment(n).spike_labels, label)

\* C25: the combined template of a label is the sum over the segments of
\* (the segment's template of the label times the segment's spike count of
\* the label) divided by the total spike count of the label; a segment
\* without the label adds nothing; a segment's template of a label is the
\* row at the label's rank among the segment's sorted distinct labels.
C25_WeightedMeanTemplate ==
    (call.fn = "compute_epoch_spike_sorting" /\ step = "returned") =>
        LET N == Len(call.segment_sortings)
            unique_labels == SortedSeq(UNION {LabelsOf(EpochSegment(n)) : n \in 1..N})
        IN  /\ Len(result.templates) = Len(unique_labels)
            /\ \A i \in 1..Len(unique_labels) :
                   /\ result.templates[i].template_sum = TemplateSumUpTo(N, unique_labels[i])
                   /\ result.templates[i].total_spike_count = WeightUpTo(N, unique_labels[i])
                   /\ result.templates[i].total_spike_count > 0
\* one segment holds labels 1 and 2 once each, the other holds label 2
\* twice with another template: label 2 gets the weighted mean of rows 2
\* and 1, label 1 the template of the only segment that has it
C25_Witness ==
    /\ call.fn = "compute_epoch_spike_sorting" /\ step = "returned"
    /\ Len(call.segment_sortings) = 2
    /\ \E a, b \in 1..2 :
          /\ a # b
          /\ call.segment_sortings[a].spike_labels = <<2, 1>>
          /\ call.segment_sortings[a].templates = <<1, 2>>
          /\ call.segment_sortings[b].spike_labels = <<2, 2>>
          /\ call.segment_sortings[b].templates = <<1>>
    /\ result.templates = <<[template_sum |-> 1, total_spike_count |-> 1],
                            [template_sum |-> 4, total_spike_count |-> 3]>>
\* C26: the aggregate sorting of a block is written only while the block has
\* at least one raw segment and every raw segment of the block has its four
\* per-segment sorting files; a block with an unsorted segment, or with no
\* segment at all, is never aggregated.
C26_AggregatedOnlyWhenAllSorted ==
    /\ [](\A b \in Blocks :
             DirExists(files, BP("epoch_block_spike_sorting", b)) =>
                /\ RawSegs(files, b) # {}
                /\ \A n \in RawSegs(files, b) : AllExist(files, <<"spike_sorting", b, n>>))
    /\ [][\A b \in Blocks :
             files'[BP("epoch_block_spike_sorting", b)] # files[BP("epoch_block_spike_sorting", b)] =>
                /\ RawSegs(files, b) # {}
                /\ \A n \in RawSegs(files, b) : AllExist(files, <<"spike_sorting", b, n>>)]_vars
\* a tick in which the aggregation stage found nothing to do: one block is
\* materialized with no segment and has no aggregate, the other has two
\* segments and was aggregated once
C26_Witness ==
    \E b, c \in Blocks :
        /\ rawDir[b] /\ RawSegs(files, b) = {}
        /\ files[BP("epoch_block_spike_sorting", b)] = 0
        /\ Cardinality(RawSegs(files, c)) = 2
        /\ AllExist(files, BP("epoch_block_spike_sorting", c))
        /\ writes[BP("epoch_block_spike_sorting", c)] = 1
        /\ pc = "epoch_block_preview" /\ wr = {}
        /\ tickWrote["epoch_block_spike_sorting"] = {}
\* the ordered pairs of distinct spikes of the train whose time difference
\* t[j] - t[i] lies in [lo, hi)
RECURSIVE SumSeq(_)
SumSeq(q) == IF q = << >> THEN 0 ELSE Head(q) + SumSeq(Tail(q))
OrderedPairs(t, lo, hi) ==
    {p \in (1..Len(t)) \X (1..Len(t)) :
        p[1] # p[2] /\ lo <= t[p[2]] - t[p[1]] /\ t[p[2]] - t[p[1]] < hi}

\* C27: the bin counts of the autocorrelogram add up to the number of
\* ordered pairs of distinct spikes whose time difference is inside the
\* window; every bin holds what a count over all pairs gives for it, so the
\* enumeration by increasing offset with its early stop loses nothing; and
\* the histogram is symmetric about its centre bin.
C27_AutocorrelogramCountsPairs ==
    (call.fn = "compute_unit_autocorrelogram" /\ step = "returned") =>
        LET t == call.spike_train
            num_bins == Len(result.bin_counts)
            half == NumBinsHalf(num_bins)
            edges == BinEdges(num_bins)
        IN  /\ SumSeq(result.bin_counts)
                  = Cardinality(OrderedPairs(t, 1 - num_bins, num_bins))
            /\ \A k \in 1..num_bins :
                   /\ result.bin_counts[k] = result.bin_counts[num_bins + 1 - k]
                   /\ k > half =>
                         result.bin_counts[k]
                           = Cardinality(OrderedPairs(t, edges[k], edges[k + 1]))
            /\ result.bin_counts[half] = Cardinality(OrderedPairs(t, 0, 1))
\* a train of four spikes and a window of three bins: the loop stopped at
\* offset 3 with one offset left, after counting the pairs of neighbours
\* and of second neighbours
C27_Witness ==
    /\ call.fn = "compute_unit_autocorrelogram" /\ step = "returned"
    /\ call.spike_train = <<0, 1, 2, 6>> /\ call.window_bins = 4
    /\ result.offset = 3
    /\ result.bin_counts = <<3, 0, 3>>
\* what the claim calls an invalid configuration and invalid coordinates
ConfigInvalid(c) ==
    \/ ~c.exists
    \/ c.present # RequiredFields
    \/ c.detect_threshold_for_spike_stats >= 0 \/ c.coarse_sorting_detect_threshold >= 0
    \/ c.high_activity_threshold < 0
CoordsInvalid(f, n) ==
    \/ ~f.exists
    \/ Cardinality({i \in 1..Len(f.lines) : f.lines[i] # "blank"}) # n
    \/ \E i \in 1..Len(f.lines) : f.lines[i] \notin {"blank", "x y"}
NothingWritten ==
    /\ \A a \in Paths : files[a] = 0 /\ writes[a] = 0
    /\ \A b \in Blocks : ~rawDir[b]

\* C28: when the configuration file is missing, lacks a required field, has
\* a non-negative detection threshold or a negative high-activity threshold,
\* or when electrode_coords.txt is missing, malformed or has a number of
\* non-empty lines other than n_channels, the process has exited once the
\* file is read, it stays exited, the loop is never entered and no raw or
\* computed artifact is ever written.
C28_StartupValidationFatal ==
    /\ [](call.fn = "run_start" /\ ConfigInvalid(call.config) => pc = "exited")
    /\ [](step = "coords_read" /\ CoordsInvalid(result, call.config.n_channels) =>
             pc = "exited")
    /\ [](pc \in {"load_config", "load_electrode_coords", "setup_directories", "exited"} =>
             NothingWritten)
    /\ [][pc = "exited" => pc' = "exited"]_vars
\* the process has exited on coordinates with one line too few, under a
\* valid configuration, with nothing written
C28_Witness ==
    /\ pc = "exited" /\ step = "coords_read"
    /\ ~ConfigInvalid(call.config)
    /\ result.exists /\ call.config.n_channels = 2 /\ result.lines = <<"x y", "blank">>
    /\ NothingWritten
\* C29: shift_coeffs.yaml is written at most once over the run; the write
\* starts only in a state where a reference is designated and the filtered
\* artifact of that reference exists; and once the file exists no step
\* touches it again, whatever the designation has become.
C29_ShiftCoeffsOneShot ==
    /\ [](writes[CoeffsPath] <= 1)
    /\ [][writes'[CoeffsPath] # writes[CoeffsPath] =>
             /\ pc = "shift_coeffs"
             /\ reference_segment # None
             /\ Exists(files, P("filt", reference_segment))]_vars
    /\ [][files[CoeffsPath] = Done(CoeffsPath) =>
             files'[CoeffsPath] = files[CoeffsPath] /\ CoeffsPath \notin wr']_vars
\* after the user changed the designation, a tick has filtered the new
\* reference and then passed the shift-coefficient stage, which left the
\* file of the earlier designation as it was
C29_Witness ==
    /\ refSets = 1 /\ pc = "shifting" /\ wr = {}
    /\ files[CoeffsPath] = Done(CoeffsPath) /\ writes[CoeffsPath] = 1
    /\ reference_segment \in Segs
    /\ P("filt", reference_segment) \in tickWrote["filtering"]
    /\ tickWrote["shift_coeffs"] = {}
\* C30: every tick resolves the designation anew from reference_segment.txt,
\* and a change of the file makes the driver redo nothing: the change itself
\* touches no artifact, no step ever lowers the progress of an artifact, and
\* a complete artifact is never written again, so what was computed under
\* the earlier designation stays as it is.
C30_DesignationChangeReprocessesNothing ==
    /\ [][pc = "get_reference" =>
             reference_segment' = (IF refFile \in Segs THEN refFile ELSE None)]_vars
    /\ [][refFile' # refFile => files' = files /\ writes' = writes /\ wr' = wr]_vars
    /\ [][\A a \in Paths :
             /\ files'[a] >= files[a]
             /\ files[a] = Done(a) => files'[a] = files[a] /\ writes'[a] = writes[a]]_vars
\* the user changed the designation; this tick computed the reference
\* sorting of the new reference, and the reference sorting of the earlier
\* one and a per-segment sorting made in an earlier tick are still complete
C30_Witness ==
    /\ refSets = 1 /\ reference_segment \in Segs /\ wr = {}
    /\ tickWrote["reference_sorting"] = {P("reference_sorting", reference_segment)}
    /\ AllExist(files, P("reference_sorting", reference_segment))
    /\ \E s \in Segs :
          /\ s # reference_segment
          /\ AllExist(files, P("reference_sorting", s))
          /\ writes[P("reference_sorting", s)] = 1
    /\ \E a \in Paths :
          /\ a[1] = "spike_sorting" /\ AllExist(files, a) /\ writes[a] = 1
          /\ a \notin tickWrote["spike_sorting"]
\* C31: a step changes a reference sorting only in a state where that
\* segment is the designated reference and its shifted and high-activity
\* artifacts exist; a step changes a per-segment sorting only in a state
\* where the four reference-sorting files of the designated reference and
\* the reference's shifted artifact exist and the segment's own shifted and
\* high-activity artifacts exist.
C31_ReferenceStagesGated ==
    [][\A a \in Paths :
          /\ (a[1] = "reference_sorting" /\ files'[a] # files[a]) =>
                /\ reference_segment = <<a[2], a[3]>>
                /\ Exists(files, <<"shifted", a[2], a[3]>>)
                /\ Exists(files, <<"high_activity", a[2], a[3]>>)
          /\ (a[1] = "spike_sorting" /\ files'[a] # files[a]) =>
                /\ reference_segment \in Segs
                /\ AllExist(files, P("reference_sorting", reference_segment))
                /\ Exists(files, P("shifted", reference_segment))
                /\ Exists(files, <<"shifted", a[2], a[3]>>)
                /\ Exists(files, <<"high_activity", a[2], a[3]>>)]_vars
\* the sorting of a segment other than the reference is being written, in a
\* tick that found the reference sorting complete and did not write it
C31_Witness ==
    \E a \in wr :
        /\ a[1] = "spike_sorting" /\ reference_segment \in Segs
        /\ <<a[2], a[3]>> # reference_segment
        /\ files[a] > 1
        /\ tickWrote["reference_sorting"] = {}
        /\ ~AllExist(files, P("spike_sorting", reference_segment))
\* C32: in every reachable state, for every segment: a shifted artifact
\* implies the filtered artifact and shift_coeffs.yaml; a stats or
\* high-activity artifact implies the filtered artifact; a filtered artifact
\* implies the raw segment; a preview implies the filtered, shifted, stats
\* and high-activity artifacts.
C32_DependencyClosure ==
    \A s \in Segs :
        /\ Exists(files, P("shifted", s)) =>
              Exists(files, P("filt", s)) /\ Exists(files, CoeffsPath)
        /\ Exists(files, P("stats", s)) => Exists(files, P("filt", s))
        /\ Exists(files, P("high_activity", s)) => Exists(files, P("filt", s))
        /\ Exists(files, P("filt", s)) => Exists(files, P("raw", s))
        /\ Exists(files, P("preview", s)) =>
              \A k \in {"filt", "shifted", "stats", "high_activity"} : Exists(files, P(k, s))
\* one segment has its preview and everything below it, while another has
\* been filtered and has its stats but is not shifted yet
C32_Witness ==
    \E s, t \in Segs :
        /\ files[P("preview", s)] = 2
        /\ files[P("stats", t)] = 2 /\ ~Exists(files, P("shifted", t))
        /\ ~Exists(files, P("preview", t))
\* every ingested segment has its per-segment artifacts, every block with a
\* segment its aggregation and its preview, and this tick has written nothing
AllComputed ==
    /\ \A s \in Segs : Exists(files, P("raw", s)) =>
          /\ \A k \in {"filt", "shifted", "stats", "high_activity", "preview"} :
                files[P(k, s)] = Done(P(k, s))
          /\ AllExist(files, P("spike_sorting", s))
    /\ \A b \in Blocks : RawSegs(files, b) # {} =>
          /\ AllExist(files, BP("epoch_block_spike_sorting", b))
          /\ files[BP("epoch_block_preview", b)] = Done(BP("epoch_block_preview", b))
    /\ wr = {} /\ \A w \in Writers : tickWrote[w] = {}

\* C33: when the designated reference is an ingested segment and no
\* classification raises, the driver's repeated ticks lead to a state from
\* which on every ingested segment has its filtered, shifted, stats,
\* high-activity, spike-sorting and preview artifacts, every block with a
\* segment has its aggregation and its epoch preview, and no tick writes
\* anything.
C33_EventuallyAllComputed ==
    ([](pc # "crashed") /\ <>Exists(files, P("raw", refFile))) => <>[]AllComputed
\* two blocks are ingested and fully computed, the first of them holding
\* more segments than the second, and the driver is between two ticks
C33_Witness ==
    /\ AllComputed /\ pc = "sleep"
    /\ Cardinality(RawSegs(files, 1)) = 2 /\ Cardinality(RawSegs(files, 2)) = 1
    /\ refFile = <<2, 1>>
\* C34: a sorting directory counts as complete exactly when all four files
\* exist: then its stage returns without writing; in every other case (no
\* directory, or a directory with a file missing) the stage computes and
\* saves all four files, those already present included, and no file that
\* was present goes away.
C34_CompleteIffAllFour ==
    (call.fn = "process_sorting" /\ step = "returned") =>
        /\ call.present = RequiredFiles =>
              ~result.processed /\ result.saved = << >> /\ result.present = call.present
        /\ call.present # RequiredFiles =>
              /\ result.processed
              /\ {result.saved[i] : i \in 1..Len(result.saved)} = RequiredFiles
              /\ Len(result.saved) = Cardinality(RequiredFiles)
              /\ result.present = RequiredFiles
\* a per-segment sorting directory left with two of its files was computed
\* again, and the two files were among those saved
C34_Witness ==
    /\ call.fn = "process_sorting" /\ step = "returned"
    /\ call.stage = "spike_sorting" /\ call.dir_exists
    /\ call.present = {"templates.npy", "spike_times.npy"}
    /\ result.processed /\ Len(result.saved) = 4
    /\ result.saved[1] = "templates.npy"
\* the segments whose preview the claim calls enabled: no preview yet, the
\* filtered, shifted, stats and high-activity artifacts exist, and for the
\* designated reference the four reference-sorting files exist
PreviewEnabled ==
    {s \in Segs :
        /\ ~Exists(files, P("preview", s))
        /\ \A k \in {"filt", "shifted", "stats", "high_activity"} : Exists(files, P(k, s))
        /\ s = reference_segment => AllExist(files, P("reference_sorting", s))}

\* C35: the preview stage, when it runs, starts the preview of an enabled
\* segment whenever there is one, whether or not that segment has a spike
\* sorting, and starts no other; a preview path that exists is never written
\* again, in particular not when the segment's spike sorting completes
\* afterwards.
C35_PreviewNotGatedOnSorting ==
    /\ [][(pc = "preview" /\ wr = {}) =>
             /\ PreviewEnabled # {} => \E s \in PreviewEnabled : P("preview", s) \in wr'
             /\ \A a \in wr' : <<a[2], a[3]>> \in PreviewEnabled]_vars
    /\ [][\A s \in Segs :
             Exists(files, P("preview", s)) =>
                /\ writes'[P("preview", s)] = writes[P("preview", s)]
                /\ files'[P("preview", s)] >= files[P("preview", s)]]_vars
\* a segment other than the reference got its spike sorting in this tick,
\* its preview is from an earlier tick, and the preview stage has passed
\* without writing it again
C35_Witness ==
    \E s \in Segs :
        /\ s # reference_segment
        /\ P("spike_sorting", s) \in tickWrote["spike_sorting"]
        /\ AllExist(files, P("spike_sorting", s))
        /\ files[P("preview", s)] = 2 /\ writes[P("preview", s)] = 1
        /\ P("preview", s) \notin tickWrote["preview"]
        /\ pc = "status"
\* C36: the labels the classifier returns are the matched labels under a
\* permutation of the labels present, so the set of distinct labels and the
\* per-label spike counts, as a multiset, are those before the remap; and
\* row i of the returned templates is the per-channel median of the frames
\* of exactly the spikes that carry the i-th smallest returned label.
C36_RemapIsPermutation ==
    (call.fn = "compute_spike_sorting" /\ step = "returned") =>
        LET L == LabelSet(call.matched_labels)
        IN  /\ LabelSet(result.spike_labels) = L
            /\ \E f \in [L -> L] :
                   /\ \A l \in L : \E k \in L : f[k] = l
                   /\ \A i \in 1..Len(call.matched_labels) :
                          result.spike_labels[i] = f[call.matched_labels[i]]
            /\ result.templates = Templates(call.frames, result.spike_labels)
\* three spikes, two with label 1 and one with label 2, came back with the
\* labels exchanged and the two template rows exchanged with them
C36_Witness ==
    /\ call.fn = "compute_spike_sorting" /\ step = "returned"
    /\ call.matched_labels = <<1, 1, 2>>
    /\ result.spike_labels = <<2, 2, 1>>
    /\ result.templates[1] # result.templates[2]
    /\ result.templates[2] = Templates(call.frames, call.matched_labels)[1]
\* the stages that work on one segment at a time
SegmentStages == {"filtering", "shifting", "stats", "high_activity", "spike_sorting", "preview"}
\* the kind of artifact a segment stage makes
KindOf(stage) == IF stage = "filtering" THEN "filt" ELSE IF stage = "shifting" THEN "shifted" ELSE stage
\* a segment whose artifact of the stage is missing although the file that
\* makes the stage look at the segment is there
IsPendingIn(stage, a) ==
    /\ a[1] = KindOf(stage)
    /\ IF stage = "filtering"
       THEN rawDir[a[2]] /\ Exists(files, <<"raw", a[2], a[3]>>)
       ELSE IF stage = "spike_sorting"
       THEN Exists(files, <<"shifted", a[2], a[3]>>)
       ELSE Exists(files, <<"filt", a[2], a[3]>>)
    /\ IF stage = "spike_sorting" THEN ~AllExist(files, a) ELSE ~Exists(files, a)
\* ... and whose prerequisites are all there
IsEligibleIn(stage, a) ==
    /\ IsPendingIn(stage, a)
    /\ stage = "spike_sorting" => Exists(files, <<"high_activity", a[2], a[3]>>)
    /\ stage = "preview" =>
          /\ \A k \in {"shifted", "stats", "high_activity"} : Exists(files, <<k, a[2], a[3]>>)
          /\ reference_segment = <<a[2], a[3]>> =>
                AllExist(files, <<"reference_sorting", a[2], a[3]>>)
\* the stage as a whole is not held back
StageOpen(stage) ==
    /\ stage = "shifting" => Exists(files, CoeffsPath)
    /\ stage = "spike_sorting" =>
          /\ AllExist(files, P("reference_sorting", reference_segment))
          /\ Exists(files, P("shifted", reference_segment))

\* C37: when a segment stage runs in a tick, the one item it takes up is the
\* first, in (block, segment) order, of the pending items whose
\* prerequisites exist, whatever pending items without their prerequisites
\* come before it; and it takes up none only when no pending item is eligible.
C37_FirstEligibleInOrder ==
    [][\A stage \in SegmentStages :
          (pc = stage /\ wr = {} /\ StageOpen(stage)) =>
              LET eligible == {a \in Paths : IsEligibleIn(stage, a)}
                  taken == wr' \cup (IF pc' = "crashed"
                                     THEN {P("spike_sorting", raised')} ELSE {})
              IN  taken = {a \in eligible : \A b \in eligible : PathLeq(a, b)}]_vars
\* classification is at work on a segment while a segment that sorts before
\* it is pending with its high-activity file missing
C37_Witness ==
    /\ pc = "spike_sorting"
    /\ \E a \in wr, b \in Paths :
          /\ b # a /\ PathLeq(b, a)
          /\ IsPendingIn(pc, b) /\ ~IsEligibleIn(pc, b)
\* the label of the unit whose template is a given row of a sorting's
\* templates: the row-th smallest label present
LabelOfRow(spike_labels, row) ==
    CHOOSE x \in LabelSet(spike_labels) :
        Cardinality({y \in LabelSet(spike_labels) : y < x}) = row - 1
\* the emitted items keep to one per unordered pair, to two different units,
\* to units of at least 2 spikes and to different templates
SepItemsWellFormed ==
    (call.fn = "create_cluster_separation_view" /\ step # "called") =>
        \A i, j \in 1..Len(result.separation_items) :
            LET a == result.separation_items[i]
                b == result.separation_items[j]
            IN  /\ i # j => {a.unit_id_1, a.unit_id_2} # {b.unit_id_1, b.unit_id_2}
                /\ a.unit_id_1 # a.unit_id_2
                /\ Cardinality(SpikeInds(call.spike_labels, a.unit_id_1)) >= 2
                /\ Cardinality(SpikeInds(call.spike_labels, a.unit_id_2)) >= 2
                /\ call.templates[a.template_rows[1]] # call.templates[a.template_rows[2]]

\* C38: the builder emits at most one item per unordered pair of units, none
\* that pairs a unit with itself, none for a pair with a unit of fewer than
\* 2 spikes or with coinciding templates, and in every item the two
\* projection arrays are of spikes of the two units whose templates, in this
\* order, gave the discriminant axis.
C38_SeparationItems ==
    /\ SepItemsWellFormed
    /\ (call.fn = "create_cluster_separation_view" /\ step # "called") =>
          \A i \in 1..Len(result.separation_items) :
              LET a == result.separation_items[i]
              IN  /\ a.projections_1 \subseteq
                        SpikeInds(call.spike_labels,
                                  LabelOfRow(call.spike_labels, a.template_rows[1]))
                  /\ a.projections_2 \subseteq
                        SpikeInds(call.spike_labels,
                                  LabelOfRow(call.spike_labels, a.template_rows[2]))
\* C39: a request changes nothing in the tree, and for every block it reports
\* has_epoch_sorting is true exactly when the four aggregation files the
\* driver writes for the block exist, and has_epoch_preview exactly when the
\* block's epoch preview exists.
C39_FlagsAgreeWithArtifacts ==
    [][(step = "idle" /\ step' = "returned") =>
          /\ files' = files /\ rawDir' = rawDir
          /\ \A b \in DOMAIN result'.epochs :
                /\ result'.epochs[b].has_epoch_sorting
                      = AllExist(files, BP("epoch_block_spike_sorting", b))
                /\ result'.epochs[b].has_epoch_preview
                      = Exists(files, BP("epoch_block_preview", b))]_vars
====
